---- MODULE Spec2Model ----
(***************************************************************************)
(* The touch-input decoder of src/src/input.rs: start_input_thread's       *)
(* dispatch loop over raw Linux input records (multitouch protocol B slot  *)
(* state, the single-touch fallback, the per-device CoordMapper) and the   *)
(* mpsc channel that carries the decoded batches to the render loop of     *)
(* src/src/main.rs.                                                        *)
(*                                                                         *)
(* f32 values (normalised coordinates, screen positions) are modelled as   *)
(* exact fractions <<numerator, denominator>> in lowest terms.             *)
(***************************************************************************)
EXTENDS Integers, Sequences, FiniteSets, TLC

(***************************************************************************)
(* Program constants (input.rs, lines 22-40 and 325).                      *)
(***************************************************************************)
EV_SYN == 0
EV_KEY == 1
EV_ABS == 3
ABS_MT_SLOT == 47
ABS_MT_TRACKING_ID == 57
ABS_MT_POSITION_X == 53
ABS_MT_POSITION_Y == 54
ABS_X == 0
ABS_Y == 1
SYN_REPORT == 0
BTN_TOUCH == 330
MAX_SLOTS == 10

(***************************************************************************)
(* Bounds of the model.                                                    *)
(***************************************************************************)
\* number of opened devices (files.len())
NumDevices == 2
\* tracking ids delivered by the kernel are -1..MaxTid
MaxTid == 1
\* raw coordinates delivered by the kernel are 0..MaxRaw
MaxRaw == 1

Devices == 0 .. (NumDevices - 1)
SlotIdx == 0 .. (MAX_SLOTS - 1)
TidValues == (-1) .. MaxTid
RawValues == 0 .. MaxRaw
\* records the dispatch has no arm for (values of linux/input-event-codes.h):
\* SYN_MT_REPORT, ABS_MT_PRESSURE, BTN_TOOL_FINGER, EV_MSC
Unhandled == [syn |-> 2, abs |-> 58, key |-> 325, type |-> 4]

VARIABLES
    slots,          \* slots[d][i]: SlotState of slot i of device d
    current_slot,   \* current_slot[d]
    st_x,           \* single-touch shadow state, per device
    st_y,
    st_down,
    st_was_down,
    mappers,        \* mappers[d]: CoordMapper of device d
    screen,         \* [w, h]: screen_width, screen_height
    rotation,       \* the display_rotation start_input_thread was given
    chan,           \* batches sent on tx and not yet received on rx
    input,          \* input[d]: a scripted session's records for device d
                    \* (recs) and how many of them were read (done)
    last,           \* the iteration of the dispatch loop that ran last
    replay,         \* [run, first]: which of two decoders fed the same
                    \* session is running (1, 2), and what the first one sent
    thread,         \* where the input-reader thread is: "find", "open",
                    \* "seed", "mappers", "epoll", "loop", or how it ended:
                    \* "returned", "panicked"
    env,            \* what the thread runs against: overflow_checks (the
                    \* build option) and receiver ("held" or "dropped")
    boot,           \* start_input_thread before the loop: the devices
                    \* found, what open, ioctl and epoll_create1 will answer,
                    \* and files, ioctl_range_x, ioctl_range_y, fd_to_dev
    finder          \* find_touch_devices: the registry and device nodes it
                    \* reads, the lines not yet read, current_handlers,
                    \* has_abs, is_touch_name, devices

devVars == <<slots, current_slot, st_x, st_y, st_down, st_was_down>>
cfgVars == <<mappers, screen, rotation>>
\* what no step of the dispatch loop touches
envVars == <<replay, thread, env, boot, finder>>
vars == <<slots, current_slot, st_x, st_y, st_down, st_was_down,
          mappers, screen, rotation, chan, input, last, replay, thread,
          env, boot, finder>>

(***************************************************************************)
(* Exact fractions for f32 arithmetic.                                     *)
(***************************************************************************)
Abs(n) == IF n < 0 THEN -n ELSE n

RECURSIVE Gcd(_, _)
Gcd(a, b) == IF b = 0 THEN a ELSE Gcd(b, a % b)

\* n/d in lowest terms, d > 0
Frac(n, d) ==
    IF d = 1 THEN <<n, 1>>
    ELSE LET g == Gcd(Abs(n), d)
         IN  IF g = 0 THEN <<0, 1>> ELSE <<n \div g, d \div g>>

FracLeq(a, b) == a[1] * b[2] <= b[1] * a[2]

Max(a, b) == IF a >= b THEN a ELSE b

\* a - b on i32 as a build without overflow checks computes it: the result
\* wraps around modulo 2^32 (computed without leaving the 32-bit range)
WrappingSub(a, b) ==
    LET max == 2147483647
        min == (-max) - 1
    IN  IF b > 0 /\ a < min + b THEN (((a - min) - b) + max) + 1
        ELSE IF b < 0 /\ a > max + b THEN (((a - max) - 1) - b) + min
        ELSE a - b

(***************************************************************************)
(* SlotState and its Default (input.rs 45-67).                             *)
(***************************************************************************)
SlotStateDefault ==
    [tracking_id |-> -1, prev_tracking_id |-> -1, x |-> 0, y |-> 0,
     has_pos |-> FALSE]

\* the slot table of a device as allocated at line 326
SlotTableDefault == [i \in SlotIdx |-> SlotStateDefault]

(***************************************************************************)
(* CoordMapper (input.rs 90-194).                                          *)
(***************************************************************************)
\* faulty variant of the table: the rows of ROTATION_90 and ROTATION_270 are
\* exchanged
FlipTableQuarterTurnsExchanged(display_rotation) ==
    CASE display_rotation = 0 -> <<FALSE, FALSE>>
      [] display_rotation = 1 -> <<TRUE, FALSE>>
      [] display_rotation = 2 -> <<TRUE, TRUE>>
      [] display_rotation = 3 -> <<FALSE, TRUE>>
      [] OTHER -> <<FALSE, FALSE>>

\* the (flip_x, flip_y) table of CoordMapper::new
FlipTable(display_rotation) ==
    CASE display_rotation = 0 -> <<FALSE, FALSE>>
      [] display_rotation = 1 -> <<FALSE, TRUE>>
      [] display_rotation = 2 -> <<TRUE, TRUE>>
      [] display_rotation = 3 -> <<TRUE, FALSE>>
      [] OTHER -> <<FALSE, FALSE>>

CoordMapperNew(ioctl_x, ioctl_y, screen_w, screen_h, display_rotation) ==
    LET sensor_x_span == Max(WrappingSub(ioctl_x[2], ioctl_x[1]), 1)
        sensor_y_span == Max(WrappingSub(ioctl_y[2], ioctl_y[1]), 1)
        sensor_is_landscape == sensor_x_span < sensor_y_span
        screen_is_landscape == screen_w < screen_h
        flips == FlipTable(display_rotation)
    IN  [raw_x_min |-> ioctl_x[1], raw_x_max |-> ioctl_x[2],
         raw_y_min |-> ioctl_y[1], raw_y_max |-> ioctl_y[2],
         swap_xy |-> (sensor_is_landscape # screen_is_landscape),
         flip_x |-> flips[1], flip_y |-> flips[2]]

\* CoordMapper::to_screen: normalise, swap, flip, scale
to_screen(m, raw_x, raw_y, screen_w, screen_h) ==
    LET x_span == Max(WrappingSub(m.raw_x_max, m.raw_x_min), 1)
        y_span == Max(WrappingSub(m.raw_y_max, m.raw_y_min), 1)
        nx0 == <<WrappingSub(raw_x, m.raw_x_min), x_span>>
        ny0 == <<WrappingSub(raw_y, m.raw_y_min), y_span>>
        nx1 == IF m.swap_xy THEN ny0 ELSE nx0
        ny1 == IF m.swap_xy THEN nx0 ELSE ny0
        nx2 == IF m.flip_x THEN <<nx1[2] - nx1[1], nx1[2]>> ELSE nx1
        ny2 == IF m.flip_y THEN <<ny1[2] - ny1[1], ny1[2]>> ELSE ny1
    IN  [x |-> Frac(nx2[1] * screen_w, nx2[2]),
         y |-> Frac(ny2[1] * screen_h, ny2[2])]

\* the `normalize` closure of the SYN_REPORT handler
normalize(d, raw_x, raw_y) ==
    to_screen(mappers[d], raw_x, raw_y, screen.w, screen.h)

(***************************************************************************)
(* egui events pushed by the SYN_REPORT handler.                           *)
(***************************************************************************)
\* a variant of the finger id without the block of 1000 ids per device
TouchIdByDevice(d, slot_idx) == d + slot_idx

TouchId(d, slot_idx) == d * 1000 + slot_idx

Touch(d, id, phase, pos) ==
    [kind |-> "Touch", device_id |-> d, id |-> id, phase |-> phase,
     pos |-> pos]

PointerMoved(pos) == [kind |-> "PointerMoved", pos |-> pos]

PointerButton(pos, pressed) ==
    [kind |-> "PointerButton", pos |-> pos, pressed |-> pressed]

PointerGone == [kind |-> "PointerGone"]

(***************************************************************************)
(* The slot loop of the SYN_REPORT handler (input.rs 490-562).             *)
(***************************************************************************)
\* phase derivation, lines 495-506
SlotPhase(slot) ==
    LET cur_tid == slot.tracking_id
        prev_tid == slot.prev_tracking_id
    IN  IF prev_tid < 0 /\ cur_tid >= 0 THEN "Start"
        ELSE IF prev_tid >= 0 /\ cur_tid < 0 THEN "End"
        ELSE IF cur_tid >= 0 /\ slot.has_pos THEN "Move"
        ELSE "None"

\* faulty variant of the `continue`: an End without a position is skipped too
SlotSkippedAnyPhase(slot, phase) ==
    phase # "None" /\ ~slot.has_pos

\* the `continue` of lines 509-513: a phase, but no position yet
SlotSkipped(slot, phase) ==
    phase # "None" /\ ~slot.has_pos /\ phase # "End"

\* faulty variant of line 511: the skipped slot is left as it was
SlotSkipNoCommit(slot) == slot

\* line 511: the state the skipped slot is left in
SlotSkipCommit(slot) ==
    [slot EXCEPT !.prev_tracking_id = slot.tracking_id]

\* faulty variant of the commit: prev_tracking_id is not updated
SlotCommitKeepsPrev(slot) ==
    [slot EXCEPT !.has_pos = FALSE]

\* lines 559-561: commit
SlotCommit(slot) ==
    [slot EXCEPT !.prev_tracking_id = slot.tracking_id, !.has_pos = FALSE]

\* faulty variant of line 530: only slot 0 may drive the logical pointer
DrivesPointerSlotZero(slot_idx, primary_slot_handled) ==
    slot_idx = 0

\* line 530: does this emitting slot drive the logical pointer?
DrivesPointer(slot_idx, primary_slot_handled) ==
    slot_idx = 0 \/ ~primary_slot_handled

\* faulty variant of lines 532-555: a Start presses before it moves
SlotPointerEventsPressFirst(phase, pos) ==
    CASE phase = "Start" -> <<PointerButton(pos, TRUE), PointerMoved(pos)>>
      [] phase = "Move"  -> <<PointerMoved(pos)>>
      [] OTHER           -> <<PointerButton(pos, FALSE), PointerGone>>

\* lines 532-555: the pointer events that follow the primary slot's touch
SlotPointerEvents(phase, pos) ==
    CASE phase = "Start" -> <<PointerMoved(pos), PointerButton(pos, TRUE)>>
      [] phase = "Move"  -> <<PointerMoved(pos)>>
      [] OTHER           -> <<PointerButton(pos, FALSE), PointerGone>>

\* one iteration of `for slot_idx in 0..MAX_SLOTS`: the slot as the iteration
\* leaves it, the events it pushes, and primary_slot_handled after it
SlotIteration(d, slot_idx, slot, primary_slot_handled) ==
    LET phase == SlotPhase(slot)
        pos == normalize(d, slot.x, slot.y)
        drives == DrivesPointer(slot_idx, primary_slot_handled)
    IN  IF phase = "None"
        THEN [slot |-> SlotCommit(slot), events |-> <<>>,
              primary |-> primary_slot_handled]
        ELSE IF SlotSkipped(slot, phase)
        THEN [slot |-> SlotSkipCommit(slot), events |-> <<>>,
              primary |-> primary_slot_handled]
        ELSE [slot |-> SlotCommit(slot),
              events |-> <<Touch(d, TouchId(d, slot_idx), phase, pos)>>
                         \o (IF drives THEN SlotPointerEvents(phase, pos)
                             ELSE <<>>),
              primary |-> (primary_slot_handled \/ drives)]

\* faulty variant of the loop: a slot's events go in front of those of the
\* slots before it
RECURSIVE SlotLoopPrepends(_, _, _)
SlotLoopPrepends(d, slot_idx, acc) ==
    IF slot_idx >= MAX_SLOTS THEN acc
    ELSE LET it == SlotIteration(d, slot_idx, acc.slots[slot_idx], acc.primary)
         IN  SlotLoopPrepends(d, slot_idx + 1,
                 [slots |-> [acc.slots EXCEPT ![slot_idx] = it.slot],
                  events |-> it.events \o acc.events,
                  primary |-> it.primary])

\* the loop from slot_idx on: acc = [slots, events, primary]
RECURSIVE SlotLoop(_, _, _)
SlotLoop(d, slot_idx, acc) ==
    IF slot_idx >= MAX_SLOTS THEN acc
    ELSE LET it == SlotIteration(d, slot_idx, acc.slots[slot_idx], acc.primary)
         IN  SlotLoop(d, slot_idx + 1,
                 [slots |-> [acc.slots EXCEPT ![slot_idx] = it.slot],
                  events |-> acc.events \o it.events,
                  primary |-> it.primary])

(***************************************************************************)
(* The single-touch fallback of the SYN_REPORT handler (input.rs 564-616). *)
(***************************************************************************)
\* line 566: the fallback runs only if no slot was handled
FallbackRuns(primary_slot_handled) == ~primary_slot_handled

\* lines 567-613
FallbackEvents(d, now_down, was_down) ==
    LET pos == normalize(d, st_x[d], st_y[d])
        id == TouchId(d, 0)
    IN  IF now_down /\ ~was_down
        THEN <<Touch(d, id, "Start", pos), PointerMoved(pos),
               PointerButton(pos, TRUE)>>
        ELSE IF now_down
        THEN <<Touch(d, id, "Move", pos), PointerMoved(pos)>>
        ELSE IF ~now_down /\ was_down
        THEN <<Touch(d, id, "End", pos), PointerButton(pos, FALSE),
               PointerGone>>
        ELSE <<>>

(***************************************************************************)
(* The record of the loop iteration that ran last: the device, what the    *)
(* read returned, the type and code of the record, and what the slot loop  *)
(* (mt) and the fallback (st) pushed to egui_events.                       *)
(***************************************************************************)
Iteration(d, read, type, code, mt, st) ==
    [dev |-> d, read |-> read, type |-> type, code |-> code,
     mt |-> mt, st |-> st]

NoIteration == Iteration(0, "none", 0, 0, <<>>, <<>>)

(***************************************************************************)
(* Initial state: what start_input_thread builds before the loop           *)
(* (input.rs 322-372).                                                     *)
(***************************************************************************)
\* (ioctl_x, ioctl_y, screen_w, screen_h, display_rotation) of a session
Config(ix, iy, w, h, r) == [ix |-> ix, iy |-> iy, w |-> w, h |-> h, r |-> r]

\* the session the dispatch specifications start from: both axes report
\* 0..MaxRaw, a 2x4 screen (hence swap_xy) and ROTATION_90 (hence flip_y)
DispatchConfigs == {Config(<<0, MaxRaw>>, <<0, MaxRaw>>, 2, 4, 1)}

\* a build without overflow checks, whose receiver main holds on to
LoopEnv == [overflow_checks |-> FALSE, receiver |-> "held"]

\* the dispatch specifications begin where the loop is entered: the frames
\* of find_touch_devices and of the start-up are not looked at
NoBoot == [devices |-> <<>>]
NoFinder == [devices |-> <<>>]

\* the state of the decoder when the loop is entered
InitDecoder(c) ==
    /\ slots = [d \in Devices |-> SlotTableDefault]
    /\ current_slot = [d \in Devices |-> 0]
    /\ st_x = [d \in Devices |-> 0]
    /\ st_y = [d \in Devices |-> 0]
    /\ st_down = [d \in Devices |-> FALSE]
    /\ st_was_down = [d \in Devices |-> FALSE]
    /\ mappers = [d \in Devices |-> CoordMapperNew(c.ix, c.iy, c.w, c.h, c.r)]
    /\ screen = [w |-> c.w, h |-> c.h]
    /\ rotation = c.r
    /\ chan = <<>>
    /\ last = NoIteration
    /\ thread = "loop"
    /\ boot = NoBoot
    /\ finder = NoFinder

InitWith(c) ==
    /\ InitDecoder(c)
    /\ env = LoopEnv
    /\ replay = [run |-> 1, first |-> <<>>]

\* no scripted records: the specification's Next chooses what is read
NoScript == [d \in Devices |-> [recs |-> <<>>, done |-> 0]]

Init == \E c \in DispatchConfigs : InitWith(c) /\ input = NoScript

(***************************************************************************)
(* One action per arm of `match evt.event_type` / `match evt.code`         *)
(* (input.rs 434-629).  Each is one iteration of `for i in 0..nfds` for    *)
(* device d.                                                               *)
(***************************************************************************)
\* `(evt.value as usize) < MAX_SLOTS`: the cast sign-extends, so a negative
\* value becomes a usize of at least 2^63 and fails the test
SlotInTable(v) == v >= 0 /\ v < MAX_SLOTS

\* a variant of the ABS_MT_SLOT arm without the test of line 440
AbsMtSlotUnchecked(d, v) ==
    /\ current_slot' = [current_slot EXCEPT ![d] = v]
    /\ last' = Iteration(d, "ok", EV_ABS, ABS_MT_SLOT, <<>>, <<>>)
    /\ UNCHANGED <<slots, st_x, st_y, st_down, st_was_down, cfgVars, envVars, chan>>

AbsMtSlot(d, v) ==
    /\ current_slot' = IF SlotInTable(v)
                       THEN [current_slot EXCEPT ![d] = v]
                       ELSE current_slot
    /\ last' = Iteration(d, "ok", EV_ABS, ABS_MT_SLOT, <<>>, <<>>)
    /\ UNCHANGED <<slots, st_x, st_y, st_down, st_was_down, cfgVars, envVars, chan>>

AbsMtTrackingId(d, v) ==
    /\ slots' = [slots EXCEPT ![d][current_slot[d]].tracking_id = v]
    /\ last' = Iteration(d, "ok", EV_ABS, ABS_MT_TRACKING_ID, <<>>, <<>>)
    /\ UNCHANGED <<current_slot, st_x, st_y, st_down, st_was_down, cfgVars, envVars, chan>>

\* a variant that keeps the largest x written
AbsMtPositionXKeepsMax(d, v) ==
    /\ slots' = [slots EXCEPT ![d][current_slot[d]].x = Max(@, v),
                              ![d][current_slot[d]].has_pos = TRUE]
    /\ last' = Iteration(d, "ok", EV_ABS, ABS_MT_POSITION_X, <<>>, <<>>)
    /\ UNCHANGED <<current_slot, st_x, st_y, st_down, st_was_down, cfgVars, envVars, chan>>

AbsMtPositionX(d, v) ==
    /\ slots' = [slots EXCEPT ![d][current_slot[d]].x = v,
                              ![d][current_slot[d]].has_pos = TRUE]
    /\ last' = Iteration(d, "ok", EV_ABS, ABS_MT_POSITION_X, <<>>, <<>>)
    /\ UNCHANGED <<current_slot, st_x, st_y, st_down, st_was_down, cfgVars, envVars, chan>>

\* a variant that takes the reported position as the new low end of the axis
AbsMtPositionYRecalibrates(d, v) ==
    /\ slots' = [slots EXCEPT ![d][current_slot[d]].y = v]
    /\ mappers' = [mappers EXCEPT ![d].raw_y_min = v]
    /\ last' = Iteration(d, "ok", EV_ABS, ABS_MT_POSITION_Y, <<>>, <<>>)
    /\ UNCHANGED <<current_slot, st_x, st_y, st_down, st_was_down, screen,
                   rotation, chan, envVars>>

AbsMtPositionY(d, v) ==
    /\ slots' = [slots EXCEPT ![d][current_slot[d]].y = v]
    /\ last' = Iteration(d, "ok", EV_ABS, ABS_MT_POSITION_Y, <<>>, <<>>)
    /\ UNCHANGED <<current_slot, st_x, st_y, st_down, st_was_down, cfgVars, envVars, chan>>

AbsX(d, v) ==
    /\ st_x' = [st_x EXCEPT ![d] = v]
    /\ last' = Iteration(d, "ok", EV_ABS, ABS_X, <<>>, <<>>)
    /\ UNCHANGED <<slots, current_slot, st_y, st_down, st_was_down, cfgVars, envVars, chan>>

AbsY(d, v) ==
    /\ st_y' = [st_y EXCEPT ![d] = v]
    /\ last' = Iteration(d, "ok", EV_ABS, ABS_Y, <<>>, <<>>)
    /\ UNCHANGED <<slots, current_slot, st_x, st_down, st_was_down, cfgVars, envVars, chan>>

\* the `_ => {}` arm of `match evt.code`
AbsOther(d, code, v) ==
    /\ code \notin {ABS_MT_SLOT, ABS_MT_TRACKING_ID, ABS_MT_POSITION_X,
                    ABS_MT_POSITION_Y, ABS_X, ABS_Y}
    /\ last' = Iteration(d, "ok", EV_ABS, code, <<>>, <<>>)
    /\ UNCHANGED <<devVars, cfgVars, envVars, chan>>

\* a variant with one pressed flag for all devices
KeyBtnTouchShared(d, v) ==
    /\ st_down' = [e \in Devices |-> (v # 0)]
    /\ last' = Iteration(d, "ok", EV_KEY, BTN_TOUCH, <<>>, <<>>)
    /\ UNCHANGED <<slots, current_slot, st_x, st_y, st_was_down, cfgVars, envVars, chan>>

KeyBtnTouch(d, v) ==
    /\ st_down' = [st_down EXCEPT ![d] = (v # 0)]
    /\ last' = Iteration(d, "ok", EV_KEY, BTN_TOUCH, <<>>, <<>>)
    /\ UNCHANGED <<slots, current_slot, st_x, st_y, st_was_down, cfgVars, envVars, chan>>

\* a variant that takes every key for the touch button
KeyOtherSetsDown(d, code, v) ==
    /\ code # BTN_TOUCH
    /\ st_down' = [st_down EXCEPT ![d] = (v # 0)]
    /\ last' = Iteration(d, "ok", EV_KEY, code, <<>>, <<>>)
    /\ UNCHANGED <<slots, current_slot, st_x, st_y, st_was_down, cfgVars, envVars, chan>>

KeyOther(d, code, v) ==
    /\ code # BTN_TOUCH
    /\ last' = Iteration(d, "ok", EV_KEY, code, <<>>, <<>>)
    /\ UNCHANGED <<devVars, cfgVars, envVars, chan>>

\* faulty variant of lines 618-625: the batch is sent even when it is empty
\* a - b on i32 leaves the i32 range
SubOverflows(a, b) ==
    \/ b > 0 /\ a < (-2147483647 - 1) + b
    \/ b < 0 /\ a > 2147483647 + b

\* normalize(raw_x, raw_y) of line 480 panics: one of the subtractions of
\* to_screen (lines 178-183) overflows in a build with overflow checks
NormalizePanics(d, raw_x, raw_y) ==
    /\ env.overflow_checks
    /\ \/ SubOverflows(mappers[d].raw_x_max, mappers[d].raw_x_min)
       \/ SubOverflows(mappers[d].raw_y_max, mappers[d].raw_y_min)
       \/ SubOverflows(raw_x, mappers[d].raw_x_min)
       \/ SubOverflows(raw_y, mappers[d].raw_y_min)

\* a boundary of device d panics: in the normalize of a slot that emits
\* (line 515) or in the one of the fallback (line 567)
BoundaryPanics(d) ==
    /\ env.overflow_checks
    /\ LET mt == SlotLoop(d, 0, [slots |-> slots[d], events |-> <<>>,
                                 primary |-> FALSE])
       IN  \/ \E i \in DOMAIN mt.events :
                  /\ mt.events[i].kind = "Touch"
                  /\ LET slot == slots[d][mt.events[i].id - d * 1000]
                     IN  NormalizePanics(d, slot.x, slot.y)
           \/ /\ FallbackRuns(mt.primary)
              /\ NormalizePanics(d, st_x[d], st_y[d])

SyncBoundarySendsAlways(d, code) ==
    LET mt == SlotLoop(d, 0, [slots |-> slots[d], events |-> <<>>,
                              primary |-> FALSE])
        runs == FallbackRuns(mt.primary)
        st == IF runs THEN FallbackEvents(d, st_down[d], st_was_down[d])
              ELSE <<>>
        egui_events == mt.events \o st
    IN  /\ slots' = [slots EXCEPT ![d] = mt.slots]
        /\ st_was_down' = IF runs THEN [st_was_down EXCEPT ![d] = st_down[d]]
                          ELSE st_was_down
        /\ chan' = Append(chan, egui_events)
        /\ last' = Iteration(d, "ok", EV_SYN, code, mt.events, st)
        /\ UNCHANGED <<current_slot, st_x, st_y, st_down, cfgVars, envVars>>

\* lines 478-625: the slot loop, the fallback, the send; `code` is the code
\* of the sync record being processed
SyncBoundary(d, code) ==
    LET mt == SlotLoop(d, 0, [slots |-> slots[d], events |-> <<>>,
                              primary |-> FALSE])
        runs == FallbackRuns(mt.primary)
        st == IF runs THEN FallbackEvents(d, st_down[d], st_was_down[d])
              ELSE <<>>
        egui_events == mt.events \o st
    IN  /\ ~BoundaryPanics(d)
        /\ slots' = [slots EXCEPT ![d] = mt.slots]
        /\ st_was_down' = IF runs THEN [st_was_down EXCEPT ![d] = st_down[d]]
                          ELSE st_was_down
        /\ chan' = IF egui_events # <<>> /\ env.receiver = "held"
                   THEN Append(chan, egui_events)
                   ELSE chan
        /\ last' = Iteration(d, "ok", EV_SYN, code, mt.events, st)
        /\ UNCHANGED <<current_slot, st_x, st_y, st_down, cfgVars, envVars>>

\* a SYN_REPORT of device d whose normalize panics: the thread unwinds
SyncBoundaryPanics(d) ==
    /\ BoundaryPanics(d)
    /\ thread' = "panicked"
    /\ last' = Iteration(d, "ok", EV_SYN, SYN_REPORT, <<>>, <<>>)
    /\ UNCHANGED <<devVars, cfgVars, chan, replay, env, boot, finder>>

\* EV_SYN / SYN_REPORT
SynReport(d) == SyncBoundary(d, SYN_REPORT)

\* faulty variant of lines 474-476: a sync of another code is a boundary too
SynOtherIsBoundary(d, code) ==
    /\ code # SYN_REPORT
    /\ SyncBoundary(d, code)

\* EV_SYN with a code other than SYN_REPORT: `continue`
SynOther(d, code) ==
    /\ code # SYN_REPORT
    /\ last' = Iteration(d, "ok", EV_SYN, code, <<>>, <<>>)
    /\ UNCHANGED <<devVars, cfgVars, envVars, chan>>

\* the `_ => {}` arm of `match evt.event_type`
OtherType(d, type) ==
    /\ type \notin {EV_ABS, EV_KEY, EV_SYN}
    /\ last' = Iteration(d, "ok", type, 0, <<>>, <<>>)
    /\ UNCHANGED <<devVars, cfgVars, envVars, chan>>

\* file.read fails (Err) or returns fewer bytes than one record: `continue`
ReadDropped(d, read) ==
    /\ read \in {"err", "short"}
    /\ last' = Iteration(d, read, 0, 0, <<>>, <<>>)
    /\ UNCHANGED <<devVars, cfgVars, envVars, chan>>

(***************************************************************************)
(* The render loop's drain (main.rs 184): one try_recv that returns Ok.    *)
(***************************************************************************)
\* a variant that takes the batch sent last
TryRecvTakesNewest ==
    /\ chan # <<>>
    /\ chan' = SubSeq(chan, 1, Len(chan) - 1)
    /\ UNCHANGED <<devVars, cfgVars, envVars, input, last>>

TryRecv ==
    /\ chan # <<>>
    /\ chan' = Tail(chan)
    /\ UNCHANGED <<devVars, cfgVars, envVars, input, last>>

(***************************************************************************)
(* The specifications below read from one device, the last one opened,     *)
(* and let the render loop drain the channel before the next record is     *)
(* read.                                                                   *)
(***************************************************************************)
Dev == NumDevices - 1

Drained == chan = <<>> /\ UNCHANGED input

(***************************************************************************)
(* Spec: two fingers.  ABS_MT_SLOT selects slot 0, slot 1 or a slot        *)
(* outside the table; tracking ids, one X value and BTN_TOUCH arrive in    *)
(* any order.                                                              *)
(***************************************************************************)
Next ==
    \/ \E v \in {0, 1, MAX_SLOTS, -1} : Drained /\ AbsMtSlot(Dev, v)
    \/ \E v \in TidValues : Drained /\ AbsMtTrackingId(Dev, v)
    \/ Drained /\ AbsMtPositionX(Dev, MaxRaw)
    \/ \E v \in {0, 1} : Drained /\ KeyBtnTouch(Dev, v)
    \/ Drained /\ SynReport(Dev)
    \/ TryRecv

Spec == Init /\ [][Next]_vars

(***************************************************************************)
(* SpecSingleTouch: one finger in slot 0, with every position, together    *)
(* with the single-touch axes, BTN_TOUCH, the records that have no arm of  *)
(* their own and the reads that fail.                                      *)
(***************************************************************************)
NextSingleTouch ==
    \/ \E v \in TidValues : Drained /\ AbsMtTrackingId(Dev, v)
    \/ \E v \in RawValues : Drained /\ AbsMtPositionX(Dev, v)
    \/ \E v \in RawValues : Drained /\ AbsMtPositionY(Dev, v)
    \/ Drained /\ AbsX(Dev, MaxRaw)
    \/ Drained /\ AbsY(Dev, MaxRaw)
    \/ Drained /\ AbsOther(Dev, Unhandled.abs, 1)
    \/ \E v \in {0, 1} : Drained /\ KeyBtnTouch(Dev, v)
    \/ Drained /\ KeyOther(Dev, Unhandled.key, 1)
    \/ Drained /\ SynOther(Dev, Unhandled.syn)
    \/ Drained /\ SynReport(Dev)
    \/ Drained /\ OtherType(Dev, Unhandled.type)
    \/ \E r \in {"err", "short"} : Drained /\ ReadDropped(Dev, r)
    \/ TryRecv

SpecSingleTouch == Init /\ [][NextSingleTouch]_vars

(***************************************************************************)
(* SpecScript: a scripted session.  One device is given a fixed sequence   *)
(* of records, which the loop reads in order; nothing drains the channel,  *)
(* so chan ends as the sequence of all batches sent.                       *)
(***************************************************************************)
Rec(type, code, value) == [type |-> type, code |-> code, value |-> value]
RecSlot(v) == Rec(EV_ABS, ABS_MT_SLOT, v)
RecTid(v) == Rec(EV_ABS, ABS_MT_TRACKING_ID, v)
RecX(v) == Rec(EV_ABS, ABS_MT_POSITION_X, v)
RecY(v) == Rec(EV_ABS, ABS_MT_POSITION_Y, v)
RecSyn == Rec(EV_SYN, SYN_REPORT, 0)

\* finger down at (x, y) in slot s, boundary, finger up, boundary
LifecycleScript(s, t, x, y) ==
    <<RecSlot(s), RecTid(t), RecX(x), RecY(y), RecSyn, RecTid(-1), RecSyn>>

\* the tracking id arrives one frame before the position
DeferredScript(s, t, x, y) ==
    <<RecSlot(s), RecTid(t), RecSyn, RecX(x), RecY(y), RecSyn>>

\* the tracking id arrives, and is withdrawn before any position
DeferredReleaseScript(s, t) ==
    <<RecSlot(s), RecTid(t), RecSyn, RecTid(-1), RecSyn>>

\* the position arrives one frame before the tracking id
PriorPositionScript(s, t, x, y) ==
    <<RecSlot(s), RecX(x), RecY(y), RecSyn, RecTid(t), RecSyn>>

\* finger down at (x, y), boundary, then a second frame of position writes
SecondFrameScript(s, t, x, y, writes) ==
    <<RecSlot(s), RecTid(t), RecX(x), RecY(y), RecSyn>> \o writes \o <<RecSyn>>

\* what the second frame may write: nothing, X alone, Y alone
SecondFrameWrites ==
    {<<>>} \cup {<<RecX(v)>> : v \in RawValues} \cup {<<RecY(v)>> : v \in RawValues}

Occupying == 0 .. MaxTid

Scripts ==
    {LifecycleScript(s, t, x, y) :
        s \in SlotIdx, t \in Occupying, x \in RawValues, y \in RawValues}
    \cup {DeferredScript(s, t, x, y) :
        s \in SlotIdx, t \in Occupying, x \in RawValues, y \in RawValues}
    \cup {DeferredReleaseScript(s, t) : s \in SlotIdx, t \in Occupying}
    \cup {PriorPositionScript(s, t, x, y) :
        s \in SlotIdx, t \in Occupying, x \in RawValues, y \in RawValues}
    \cup {SecondFrameScript(s, t, MaxRaw, MaxRaw, w) :
        s \in SlotIdx, t \in Occupying, w \in SecondFrameWrites}

\* the sessions of the scripted specification: every rotation, a portrait
\* and a landscape screen
ScriptConfigs ==
    {Config(<<0, MaxRaw>>, <<0, MaxRaw>>, wh[1], wh[2], r) :
        wh \in {<<2, 4>>, <<4, 2>>}, r \in 0 .. 3}

InitScript ==
    \E c \in ScriptConfigs, script \in Scripts :
        /\ InitWith(c)
        /\ input = [NoScript EXCEPT ![Dev].recs = script]

HasNext(d) == input[d].done < Len(input[d].recs)
NextRec(d) == input[d].recs[input[d].done + 1]

\* the next record of device d's script has this type and code, and is read
Reads(d, type, code) ==
    /\ HasNext(d)
    /\ NextRec(d).type = type /\ NextRec(d).code = code
    /\ input' = [input EXCEPT ![d].done = @ + 1]

NextScript ==
    \/ \E d \in Devices :
          Reads(d, EV_ABS, ABS_MT_SLOT) /\ AbsMtSlot(d, NextRec(d).value)
    \/ \E d \in Devices :
          Reads(d, EV_ABS, ABS_MT_TRACKING_ID)
          /\ AbsMtTrackingId(d, NextRec(d).value)
    \/ \E d \in Devices :
          Reads(d, EV_ABS, ABS_MT_POSITION_X)
          /\ AbsMtPositionX(d, NextRec(d).value)
    \/ \E d \in Devices :
          Reads(d, EV_ABS, ABS_MT_POSITION_Y)
          /\ AbsMtPositionY(d, NextRec(d).value)
    \/ \E d \in Devices : Reads(d, EV_SYN, SYN_REPORT) /\ SynReport(d)

SpecScript == InitScript /\ [][NextScript]_vars

ScriptDone(d) == ~HasNext(d)

(***************************************************************************)
(* What the claims speak of.                                               *)
(***************************************************************************)
\* the last iteration processed a SYN_REPORT
IsSynReport(it) == it.read = "ok" /\ it.type = EV_SYN /\ it.code = SYN_REPORT

IsTouch(e) == e.kind = "Touch"

\* the touch events of slot s of device d among `events`, in order
SlotTouches(events, d, s) ==
    SelectSeq(events, LAMBDA e : IsTouch(e) /\ e.id = TouchId(d, s))

\* does `events` hold a touch of slot s of device d with this phase?
Emitted(events, d, s, phase) ==
    \E i \in 1 .. Len(events) :
        /\ IsTouch(events[i])
        /\ events[i].id = TouchId(d, s)
        /\ events[i].phase = phase

RECURSIVE Flatten(_)
Flatten(batches) ==
    IF batches = <<>> THEN <<>> ELSE Head(batches) \o Flatten(Tail(batches))

\* the script of the session and how far it was read
Script == input[Dev].recs
Done == input[Dev].done

(***************************************************************************)
(* C1  Deferred Start.  A slot that becomes Occupied with no position      *)
(* write since the last boundary emits no touch event at that boundary nor *)
(* at any later one until a position is written, and the first touch event *)
(* it emits once the position is supplied has phase Start, never Move.     *)
(* Stated on the sessions "tracking id, boundary, X, Y, boundary" and      *)
(* "tracking id, boundary, tracking id -1, boundary".                      *)
(***************************************************************************)
C1_DeferredStart ==
    \A s \in SlotIdx, t \in Occupying :
        LET ts == SlotTouches(Flatten(chan), Dev, s)
        IN  /\ \A x \in RawValues, y \in RawValues :
                  Script = DeferredScript(s, t, x, y) =>
                      \* X is the 4th record of the script
                      /\ Done < 4 => ts = <<>>
                      /\ ts # <<>> => ts[1].phase = "Start"
            /\ Script = DeferredReleaseScript(s, t) => ts = <<>>

(***************************************************************************)
(* C2  Slot lifecycle.  From a freshly initialised device, for any slot s  *)
(* and tracking id t >= 0, the records (slot s, tracking id t, X x, Y y,   *)
(* SYN_REPORT, tracking id -1, SYN_REPORT) send two batches: the first     *)
(* holds exactly one touch event, Start of slot s at the mapped position   *)
(* of (x, y); the second holds exactly one touch event, End of slot s;     *)
(* neither holds a Move.                                                   *)
(***************************************************************************)
C2_SlotLifecycle ==
    \A s \in SlotIdx, t \in Occupying, x \in RawValues, y \in RawValues :
        (Script = LifecycleScript(s, t, x, y) /\ ScriptDone(Dev)) =>
            /\ Len(chan) = 2
            /\ SelectSeq(chan[1], IsTouch)
                 = <<[kind |-> "Touch", device_id |-> Dev,
                      id |-> Dev * 1000 + s, phase |-> "Start",
                      pos |-> to_screen(mappers[Dev], x, y, screen.w, screen.h)]>>
            /\ Len(SelectSeq(chan[2], IsTouch)) = 1
            /\ Emitted(chan[2], Dev, s, "End")
            /\ \A k \in SlotIdx : ~Emitted(Flatten(chan), Dev, k, "Move")

\* a lifecycle session in a slot other than 0 has been read to its end
C2_Witness ==
    \E s \in SlotIdx \ {0}, t \in Occupying, x \in RawValues, y \in RawValues :
        /\ Script = LifecycleScript(s, t, x, y)
        /\ ScriptDone(Dev)
        /\ Len(chan) = 2
        /\ x # y

(***************************************************************************)
(* C3  Fallback exclusivity.  At every SYN_REPORT boundary of a device, if *)
(* a multitouch slot of the device pushed a touch event at this boundary,  *)
(* the single-touch fallback pushed no event to the boundary's batch.      *)
(***************************************************************************)
C3_FallbackExclusivity ==
    (IsSynReport(last) /\ \E i \in 1 .. Len(last.mt) : IsTouch(last.mt[i]))
        => last.st = <<>>

\* a slot other than slot 0 emitted at a boundary where BTN_TOUCH had
\* changed since the fallback last ran
C3_Witness ==
    /\ IsSynReport(last)
    /\ Emitted(last.mt, Dev, 1, "Start")
    /\ ~Emitted(last.mt, Dev, 0, "Start")
    /\ st_down[Dev] # st_was_down[Dev]

(***************************************************************************)
(* C4  Move on fresh position.  For a slot Occupied at the previous        *)
(* boundary and at the current one, a Move is emitted at the current       *)
(* boundary if and only if a position field (X or Y) of the slot was       *)
(* written since the previous boundary, and the fresh-position flag is     *)
(* true exactly when some position field was written since the last sync.  *)
(* Stated on the sessions "finger down, boundary, writes, boundary" with   *)
(* writes being nothing, X alone or Y alone.                               *)
(***************************************************************************)
C4_MoveOnFreshPosition ==
    \A s \in SlotIdx, t \in Occupying, w \in SecondFrameWrites :
        Script = SecondFrameScript(s, t, MaxRaw, MaxRaw, w) =>
            \* before the second boundary is read: the flag
            /\ Done = Len(Script) - 1 => (slots[Dev][s].has_pos <=> w # <<>>)
            \* after it: the Move
            /\ ScriptDone(Dev) => (Emitted(last.mt, Dev, s, "Move") <=> w # <<>>)

(***************************************************************************)
(* C5  Start on occupancy.  When a slot goes Unoccupied -> Occupied at a   *)
(* boundary, Start is emitted at that boundary provided a position has     *)
(* been observed for the slot in this frame or in a prior frame; the phase *)
(* is deferred only when no position is known at all.  Stated on the       *)
(* sessions whose position arrives before, with, or after the tracking id. *)
(***************************************************************************)
C5_StartOnOccupancy ==
    \A s \in SlotIdx, t \in Occupying, x \in RawValues, y \in RawValues :
        \* position in a prior frame: Start at the second boundary
        /\ (Script = PriorPositionScript(s, t, x, y) /\ ScriptDone(Dev))
              => Emitted(last.mt, Dev, s, "Start")
        \* position in this frame: Start at the first boundary
        /\ (Script = LifecycleScript(s, t, x, y) /\ Done = 5)
              => Emitted(last.mt, Dev, s, "Start")
        \* no position at all: deferred
        /\ (Script = DeferredScript(s, t, x, y) /\ Done = 3)
              => last.mt = <<>>

\* this step processed a SYN_REPORT: the iteration it records is a
\* SYN_REPORT one, and the step is not the consumer taking a batch
Boundary == IsSynReport(last') /\ Len(chan') >= Len(chan)

\* the batch the boundary built (egui_events before the send)
Batch(it) == it.mt \o it.st

\* how many touch events of slot s with this phase `events` holds
CountEmitted(events, d, s, phase) ==
    Cardinality({i \in 1 .. Len(events) :
        /\ IsTouch(events[i])
        /\ events[i].id = TouchId(d, s)
        /\ events[i].phase = phase})

(***************************************************************************)
(* C6  End on release.  Whenever a slot's tracking id was non-negative at  *)
(* the previous boundary and is negative at the current one, exactly one   *)
(* touch event with phase End is emitted for that slot in the current      *)
(* boundary's batch, whether or not a position was written in this frame.  *)
(***************************************************************************)
C6_EndOnRelease ==
    [][Boundary =>
        \A s \in SlotIdx :
            (slots[last'.dev][s].prev_tracking_id >= 0
                /\ slots[last'.dev][s].tracking_id < 0)
            => CountEmitted(Batch(last'), last'.dev, s, "End") = 1]_vars

\* slot 1 was released without a position ever having been written to it
C6_Witness ==
    /\ IsSynReport(last)
    /\ Emitted(last.mt, Dev, 1, "End")
    /\ slots[Dev][1].x = 0
    /\ slots[Dev][1].tracking_id < 0

(***************************************************************************)
(* C7  Commit invariant.  After the processing of every SYN_REPORT of a    *)
(* device, every one of the device's 10 slots has prev_tracking_id equal   *)
(* to tracking_id and its fresh-position flag false; and no other step     *)
(* changes prev_tracking_id, or changes the flag other than a position     *)
(* record setting it on the current slot of its device.                    *)
(***************************************************************************)
C7_CommitInvariant ==
    [][/\ Boundary =>
            \A s \in SlotIdx :
                /\ slots'[last'.dev][s].prev_tracking_id
                      = slots'[last'.dev][s].tracking_id
                /\ ~slots'[last'.dev][s].has_pos
       /\ ~Boundary =>
            \A d \in Devices, s \in SlotIdx :
                /\ slots'[d][s].prev_tracking_id = slots[d][s].prev_tracking_id
                /\ slots'[d][s].has_pos # slots[d][s].has_pos =>
                      /\ slots'[d][s].has_pos
                      /\ last'.read = "ok" /\ last'.type = EV_ABS
                      /\ last'.code \in {ABS_MT_POSITION_X, ABS_MT_POSITION_Y}
                      /\ last'.dev = d /\ current_slot[d] = s]_vars

\* slot 1 is occupied, never got a position, and a boundary has passed: the
\* commit it went through is the one of the deferral path
C7_Witness ==
    /\ IsSynReport(last)
    /\ slots[Dev][1].tracking_id >= 0
    /\ slots[Dev][1].x = 0
    /\ slots[Dev][1].prev_tracking_id = slots[Dev][1].tracking_id
    /\ slots[Dev][0].tracking_id >= 0
    /\ slots[Dev][0].x # 0

(***************************************************************************)
(* C8  Events only at boundaries.  A batch is sent to the channel only     *)
(* while a SYN_REPORT record is processed; no absolute-axis record, key    *)
(* record, non-report sync record, unrecognised record or failed read      *)
(* makes the channel grow.                                                 *)
(***************************************************************************)
C8_SendOnlyAtBoundary ==
    [][Len(chan') > Len(chan) =>
        /\ IsSynReport(last')
        /\ chan' = Append(chan, Batch(last'))]_vars

\* a batch of the fallback is in the channel
C8_Witness ==
    /\ IsSynReport(last)
    /\ last.st # <<>>
    /\ chan = <<last.st>>

\* the slots that drive pointer events in `events`: those whose touch event
\* is immediately followed by an event that is not a touch event
Drivers(events) ==
    {events[i].id : i \in {j \in 1 .. (Len(events) - 1) :
        IsTouch(events[j]) /\ ~IsTouch(events[j + 1])}}

\* occupied in the frame that the boundary closes: a finger is on the slot,
\* or was at the previous boundary
FrameOccupied(d, s) ==
    slots[d][s].tracking_id >= 0 \/ slots[d][s].prev_tracking_id >= 0

(***************************************************************************)
(* C9  Primary pointer selection.  In each boundary's batch the pointer    *)
(* events are driven by at most one multitouch slot, and that slot is the  *)
(* first occupied slot of the frame in ascending slot-index order.         *)
(***************************************************************************)
C9_PrimaryPointerSelection ==
    [][Boundary =>
        /\ Cardinality(Drivers(last'.mt)) <= 1
        /\ \A id \in Drivers(last'.mt) :
              \E s \in SlotIdx :
                  /\ id = TouchId(last'.dev, s)
                  /\ FrameOccupied(last'.dev, s)
                  /\ \A k \in 0 .. (s - 1) : ~FrameOccupied(last'.dev, k)]_vars

\* the events of `events` after index i up to the next touch event
RECURSIVE PointerRun(_, _)
PointerRun(events, i) ==
    IF i >= Len(events) \/ IsTouch(events[i + 1]) THEN <<>>
    ELSE <<events[i + 1]>> \o PointerRun(events, i + 1)

(***************************************************************************)
(* C10  Primary pointer projection.  In what the slot loop pushes at a     *)
(* boundary, the first touch event (the slot that drives the pointer) is   *)
(* followed by exactly PointerMoved then PointerButton(pressed) if it is a *)
(* Start, by exactly PointerMoved if a Move, and by exactly                *)
(* PointerButton(released) then PointerGone if an End, all with the        *)
(* position of the touch event; every event after those is a touch event.  *)
(***************************************************************************)
C10_PrimaryPointerProjection ==
    (IsSynReport(last) /\ last.mt # <<>>) =>
        LET t == last.mt[1]
            run == PointerRun(last.mt, 1)
        IN  /\ IsTouch(t)
            /\ t.phase = "Start" =>
                  run = <<[kind |-> "PointerMoved", pos |-> t.pos],
                          [kind |-> "PointerButton", pos |-> t.pos,
                           pressed |-> TRUE]>>
            /\ t.phase = "Move" =>
                  run = <<[kind |-> "PointerMoved", pos |-> t.pos]>>
            /\ t.phase = "End" =>
                  run = <<[kind |-> "PointerButton", pos |-> t.pos,
                           pressed |-> FALSE],
                          [kind |-> "PointerGone"]>>
            /\ \A i \in (Len(run) + 2) .. Len(last.mt) : IsTouch(last.mt[i])

\* slot 0 ended and drove the pointer, slot 1 started in the same frame and
\* pushed its touch event alone
C10_Witness ==
    /\ IsSynReport(last)
    /\ Len(last.mt) = 4
    /\ last.mt[1].phase = "End"
    /\ last.mt[4].phase = "Start"

(***************************************************************************)
(* C11  Single-touch fallback transitions.  At a boundary where the        *)
(* fallback runs, not-pressed -> pressed emits Start, PointerMoved and     *)
(* PointerButton(pressed); pressed -> pressed emits Move and PointerMoved; *)
(* pressed -> not-pressed emits End, PointerButton(released) and           *)
(* PointerGone; not-pressed -> not-pressed emits nothing.  `pressed` is    *)
(* the last BTN_TOUCH value written before the boundary (only a BTN_TOUCH  *)
(* record changes it) and `was_pressed` is the pressed value at the last   *)
(* boundary (every boundary leaves was_pressed equal to pressed, nothing   *)
(* else changes it).                                                       *)
(***************************************************************************)
C11_FallbackTransitions ==
    [][LET d == last'.dev
           pos == to_screen(mappers[d], st_x[d], st_y[d], screen.w, screen.h)
           touch(phase) == [kind |-> "Touch", device_id |-> d,
                            id |-> d * 1000, phase |-> phase, pos |-> pos]
           moved == [kind |-> "PointerMoved", pos |-> pos]
           button(pressed) == [kind |-> "PointerButton", pos |-> pos,
                               pressed |-> pressed]
           gone == [kind |-> "PointerGone"]
       IN  /\ (Boundary /\ last'.mt = <<>>) =>
                last'.st =
                    CASE ~st_was_down[d] /\ st_down[d] ->
                            <<touch("Start"), moved, button(TRUE)>>
                      [] st_was_down[d] /\ st_down[d] ->
                            <<touch("Move"), moved>>
                      [] st_was_down[d] /\ ~st_down[d] ->
                            <<touch("End"), button(FALSE), gone>>
                      [] OTHER -> <<>>
           /\ Boundary => st_was_down'[d] = st_down[d]
           /\ ~Boundary => st_was_down' = st_was_down
           /\ st_down' # st_down =>
                /\ last'.read = "ok"
                /\ last'.type = EV_KEY /\ last'.code = BTN_TOUCH]_vars

(***************************************************************************)
(* C12  One non-empty batch per boundary.  Each SYN_REPORT causes at most  *)
(* one send: the channel gains exactly the batch built at the boundary     *)
(* when that batch holds an event, and is left as it was when the batch is *)
(* empty; no batch in the channel is ever empty.                           *)
(***************************************************************************)
C12_OneBatchPerBoundary ==
    [][/\ Boundary =>
            IF Batch(last') # <<>>
            THEN chan' = Append(chan, Batch(last'))
            ELSE chan' = chan
       /\ \A i \in 1 .. Len(chan') : chan'[i] # <<>>]_vars

\* two slots emitted at one boundary and went out as one batch
C12_Witness ==
    /\ IsSynReport(last)
    /\ Emitted(last.mt, Dev, 0, "Start")
    /\ Emitted(last.mt, Dev, 1, "Start")
    /\ chan = <<last.mt>>

(***************************************************************************)
(* SpecDevices: every device is given a two-finger frame; the loop reads   *)
(* the devices in whatever order epoll reports them ready, and the render  *)
(* loop takes a batch whenever it gets to run, so batches queue.           *)
(***************************************************************************)
\* fingers down in slots a then b (written in that order), boundary, the
\* finger in slot b up, boundary
TwoFingerScript(a, b) ==
    <<RecSlot(a), RecTid(MaxTid), RecX(MaxRaw),
      RecSlot(b), RecTid(MaxTid), RecX(MaxRaw), RecY(MaxRaw), RecSyn,
      RecTid(-1), RecSyn>>

TwoFingerScripts ==
    {TwoFingerScript(0, MAX_SLOTS - 1), TwoFingerScript(1, 0)}

InitDevices ==
    \E c \in DispatchConfigs, scripts \in [Devices -> TwoFingerScripts] :
        /\ InitWith(c)
        /\ input = [d \in Devices |-> [recs |-> scripts[d], done |-> 0]]

NextDevices ==
    \/ NextScript
    \/ TryRecv

SpecDevices == InitDevices /\ [][NextDevices]_vars

\* the slot a touch event of device d belongs to
SlotOf(e) == e.id - e.device_id * 1000

\* the touch events of a batch
Touches(batch) == SelectSeq(batch, IsTouch)

(***************************************************************************)
(* C13  Batch ordering.  Within every batch the touch events appear in     *)
(* strictly ascending slot index, and the batches are on the channel in    *)
(* the order in which their SYN_REPORT records were read: the batch of the *)
(* boundary just processed, all of it from the device just read, goes      *)
(* behind every batch sent before it.                                      *)
(***************************************************************************)
C13_BatchOrdering ==
    [][/\ \A k \in 1 .. Len(chan') :
            LET ts == Touches(chan'[k])
            IN  \A i \in 1 .. (Len(ts) - 1) : SlotOf(ts[i]) < SlotOf(ts[i + 1])
       /\ (Boundary /\ Batch(last') # <<>>) =>
            /\ chan' = chan \o <<Batch(last')>>
            /\ \A e \in {Batch(last')[i] : i \in 1 .. Len(Batch(last'))} :
                  IsTouch(e) => e.device_id = last'.dev]_vars

\* batches of two devices are queued, the older one from the device opened
\* last, and the newer one holds two touch events written in descending slot
\* order
C13_Witness ==
    /\ Len(chan) >= 2
    /\ chan[1][1].device_id = Dev
    /\ chan[2][1].device_id = 0
    /\ Len(Touches(chan[2])) = 2
    /\ input[0].recs = TwoFingerScript(1, 0)

(***************************************************************************)
(* SpecMapper: the mapper at work.  A session is built from axis ranges    *)
(* with max > min (as read_abs_range hands them over), a surface that is   *)
(* portrait, landscape or square, and a rotation code inside or outside    *)
(* 0..3; one finger goes down at a raw point of the ranges and up again,   *)
(* so the mapped point is carried by the Start and the End that are sent.  *)
(***************************************************************************)
AxisRanges ==
    {r \in (0 .. 1) \X (1 .. (MaxRaw + 1)) : r[2] > r[1]}

ScreenSizes == {<<2, 4>>, <<4, 2>>, <<3, 3>>}

RotationCodes == (-1) .. 4

\* the scenario of a 12-bit square sensor behind a 1080x2400 surface
EndToEnd == Config(<<0, 4095>>, <<0, 4095>>, 1080, 2400, 0)

\* a device whose X axis spans 2^31 values, more than an i32 holds
WideRange == Config(<<-2147483647, 1>>, <<0, 1>>, 1, 1, 0)

MapperConfigs ==
    {Config(ix, iy, wh[1], wh[2], r) :
        ix \in AxisRanges, iy \in AxisRanges, wh \in ScreenSizes,
        r \in RotationCodes}
    \cup {EndToEnd, WideRange}

\* the raw values tried on an axis: all of a short range; the ends and the
\* middle of a long one
SamplePoints(range) ==
    IF range[1] >= 0 /\ range[2] <= MaxRaw + 1 THEN range[1] .. range[2]
    ELSE {range[1], (range[1] + range[2] + 1) \div 2, range[2]}

InitMapper ==
    \E c \in MapperConfigs :
        \E x \in SamplePoints(c.ix), y \in SamplePoints(c.iy) :
            /\ InitWith(c)
            /\ input = [NoScript EXCEPT ![Dev].recs = LifecycleScript(0, 0, x, y)]

SpecMapper == InitMapper /\ [][NextScript]_vars

\* the axis ranges device d's mapper was built from
RangeX(d) == <<mappers[d].raw_x_min, mappers[d].raw_x_max>>
RangeY(d) == <<mappers[d].raw_y_min, mappers[d].raw_y_max>>

\* is the span of this range within what an i32 holds?
SpanFits(range) == range[1] >= 0 \/ range[2] <= 2147483647 + range[1]

\* max - min of an axis range as a number, floored at 1 and capped at the
\* largest i32 where the difference is beyond it
Span(range) ==
    IF ~SpanFits(range) THEN 2147483647
    ELSE IF range[2] - range[1] >= 1 THEN range[2] - range[1] ELSE 1

(***************************************************************************)
(* C14  Swap convention.  For every mapper, swap_xy is true exactly when   *)
(* (x_span > y_span) differs from (surface_w > surface_h), each span being *)
(* max - min of the axis range floored at 1; the tie cases x_span = y_span *)
(* and surface_w = surface_h included.                                     *)
(***************************************************************************)
C14_SwapConvention ==
    \A d \in Devices :
        mappers[d].swap_xy
            <=> ((Span(RangeX(d)) > Span(RangeY(d))) # (screen.w > screen.h))

\* is this the session of the 12-bit square sensor behind a 1080x2400 surface?
IsEndToEnd ==
    /\ RangeX(Dev) = <<0, 4095>> /\ RangeY(Dev) = <<0, 4095>>
    /\ screen = [w |-> 1080, h |-> 2400]
    /\ rotation = 0

\* the raw point the session's finger was put down at
RawPoint == <<Script[3].value, Script[4].value>>

\* |a/b - c| < 1 for a fraction <<a, b>> with b > 0
About(f, c) == (c - 1) * f[2] < f[1] /\ f[1] < (c + 1) * f[2]

(***************************************************************************)
(* C15  End-to-end identity scaling.  For a device whose X and Y ranges    *)
(* are both [0,4095], a 1080x2400 surface and rotation 0, the mapper has   *)
(* swap_xy = flip_x = flip_y = false and every raw point (x, y) in range   *)
(* is mapped to (x/4095*1080, y/4095*2400); raw (2048,2048) is mapped to   *)
(* about (540, 1200).                                                      *)
(***************************************************************************)
C15_EndToEndIdentity ==
    IsEndToEnd =>
        /\ ~mappers[Dev].swap_xy /\ ~mappers[Dev].flip_x /\ ~mappers[Dev].flip_y
        /\ \A k \in 1 .. Len(chan) : \A i \in 1 .. Len(chan[k]) :
              IsTouch(chan[k][i]) =>
                  /\ chan[k][i].pos = [x |-> Frac(RawPoint[1] * 1080, 4095),
                                       y |-> Frac(RawPoint[2] * 2400, 4095)]
                  /\ RawPoint = <<2048, 2048>> =>
                        About(chan[k][i].pos.x, 540) /\ About(chan[k][i].pos.y, 1200)

InRange(raw, range) == range[1] <= raw /\ raw <= range[2]

\* is position pos within [0, screen.w] x [0, screen.h]?
OnSurface(pos) ==
    /\ FracLeq(<<0, 1>>, pos.x) /\ FracLeq(pos.x, <<screen.w, 1>>)
    /\ FracLeq(<<0, 1>>, pos.y) /\ FracLeq(pos.y, <<screen.h, 1>>)

(***************************************************************************)
(* C17  Output range.  For a device whose axis ranges have max > min, a    *)
(* raw point within [min, max] on both axes is mapped to a position within *)
(* [0, surface_w] x [0, surface_h]: every event the session has sent for   *)
(* such a point and that has a position carries one on the surface.        *)
(***************************************************************************)
C17_OutputRange ==
    (/\ RangeX(Dev)[2] > RangeX(Dev)[1] /\ RangeY(Dev)[2] > RangeY(Dev)[1]
     /\ InRange(RawPoint[1], RangeX(Dev)) /\ InRange(RawPoint[2], RangeY(Dev)))
        => \A i \in 1 .. Len(Flatten(chan)) :
               "pos" \in DOMAIN Flatten(chan)[i]
                   => OnSurface(Flatten(chan)[i].pos)

\* the flags of a mapper
Flags(m) == <<m.swap_xy, m.flip_x, m.flip_y>>

\* the mapper that construction computes for device d from the axis ranges,
\* the surface size and the rotation of this session
Constructed(d) ==
    CoordMapperNew(RangeX(d), RangeY(d), screen.w, screen.h, rotation)

ReconstructKeepsSlots ==
    /\ replay.run = 1
    /\ \A d \in Devices : ScriptDone(d)
    /\ current_slot' = [d \in Devices |-> 0]
    /\ st_x' = [d \in Devices |-> 0]
    /\ st_y' = [d \in Devices |-> 0]
    /\ st_down' = [d \in Devices |-> FALSE]
    /\ st_was_down' = [d \in Devices |-> FALSE]
    /\ mappers' = [d \in Devices |-> Constructed(d)]
    /\ chan' = <<>>
    /\ last' = NoIteration
    /\ input' = [d \in Devices |-> [input[d] EXCEPT !.done = 0]]
    /\ replay' = [run |-> 2, first |-> chan]
    /\ UNCHANGED <<slots, screen, rotation, thread, env, boot, finder>>

Reconstruct ==
    /\ replay.run = 1
    /\ \A d \in Devices : ScriptDone(d)
    /\ slots' = [d \in Devices |-> SlotTableDefault]
    /\ current_slot' = [d \in Devices |-> 0]
    /\ st_x' = [d \in Devices |-> 0]
    /\ st_y' = [d \in Devices |-> 0]
    /\ st_down' = [d \in Devices |-> FALSE]
    /\ st_was_down' = [d \in Devices |-> FALSE]
    /\ mappers' = [d \in Devices |-> Constructed(d)]
    /\ chan' = <<>>
    /\ last' = NoIteration
    /\ input' = [d \in Devices |-> [input[d] EXCEPT !.done = 0]]
    /\ replay' = [run |-> 2, first |-> chan]
    /\ UNCHANGED <<screen, rotation, thread, env, boot, finder>>

NextReplay ==
    \/ NextScript
    \/ Reconstruct

SpecReplay == InitScript /\ [][NextReplay]_vars

\* is sequence s a prefix of sequence t?
IsPrefix(s, t) == Len(s) <= Len(t) /\ s = SubSeq(t, 1, Len(s))

C20_ChannelFidelity ==
    [][\/ /\ chan' = chan
          /\ ~(input' # input /\ IsSynReport(last') /\ Batch(last') # <<>>)
       \/ /\ input' # input
          /\ IsSynReport(last') /\ Batch(last') # <<>>
          /\ chan' = Append(chan, Batch(last'))
       \/ /\ chan # <<>> /\ chan' = Tail(chan)
          /\ UNCHANGED <<devVars, input, last>>]_vars

\* the render loop has not run since the session began: every batch of
\* every device's two boundaries is queued, and the first one sent is the
\* one a try_recv would take
C20_Witness ==
    /\ \A d \in Devices : ScriptDone(d)
    /\ Len(chan) = 2 * NumDevices
    /\ \E d \in Devices : Head(chan)[1].device_id = d

(***************************************************************************)
(* SpecIsolation: every device is given a session that uses both           *)
(* protocols (a finger in a slot, the single-touch axes and BTN_TOUCH);    *)
(* the loop reads the devices in whatever order epoll reports them ready.  *)
(***************************************************************************)
RecAbsX(v) == Rec(EV_ABS, ABS_X, v)
RecAbsY(v) == Rec(EV_ABS, ABS_Y, v)
RecBtnTouch(v) == Rec(EV_KEY, BTN_TOUCH, v)

\* a finger down in slot s and the touch button pressed, boundary, both
\* released, boundary
MixedScript(s) ==
    <<RecSlot(s), RecTid(MaxTid), RecX(MaxRaw), RecY(MaxRaw),
      RecAbsX(MaxRaw), RecAbsY(MaxRaw), RecBtnTouch(1), RecSyn,
      RecTid(-1), RecBtnTouch(0), RecSyn>>

MixedScripts == {MixedScript(0), MixedScript(1)}

InitIsolation ==
    \E c \in DispatchConfigs, scripts \in [Devices -> MixedScripts] :
        /\ InitWith(c)
        /\ input = [d \in Devices |-> [recs |-> scripts[d], done |-> 0]]

NextIsolation ==
    \/ NextScript
    \/ \E d \in Devices : Reads(d, EV_ABS, ABS_X) /\ AbsX(d, NextRec(d).value)
    \/ \E d \in Devices : Reads(d, EV_ABS, ABS_Y) /\ AbsY(d, NextRec(d).value)
    \/ \E d \in Devices :
          Reads(d, EV_KEY, BTN_TOUCH) /\ KeyBtnTouch(d, NextRec(d).value)

SpecIsolation == InitIsolation /\ [][NextIsolation]_vars

\* everything the loop keeps for device d
DeviceState(d) ==
    <<slots[d], current_slot[d], st_x[d], st_y[d], st_down[d],
      st_was_down[d]>>

(***************************************************************************)
(* C21  Device isolation.  A step that processes a record read from device *)
(* d leaves the slot table, the current-slot selector and the single-touch *)
(* state of every other device as they were, takes no record from another  *)
(* device, and every touch event of the batch it produces carries device   *)
(* id d and a finger id of d's block of ids.                               *)
(***************************************************************************)
C21_DeviceIsolation ==
    [][\A d \in Devices :
          (input'[d] # input[d]) =>
              /\ last'.dev = d
              /\ \A e \in Devices \ {d} :
                     DeviceState(e)' = DeviceState(e) /\ input'[e] = input[e]
              /\ \A i \in 1 .. Len(Batch(last')) :
                     IsTouch(Batch(last')[i]) =>
                         /\ Batch(last')[i].device_id = d
                         /\ SlotOf(Batch(last')[i]) \in SlotIdx]_vars

\* device 0 has gone through its whole session, finger and button down and
\* up again, while the last device has not been read and is in the state
\* it was given at start
C21_Witness ==
    /\ NumDevices > 1
    /\ ScriptDone(0)
    /\ input[Dev].done = 0
    /\ DeviceState(Dev) = <<SlotTableDefault, 0, 0, 0, FALSE, FALSE>>
    /\ DeviceState(0) # DeviceState(Dev)
    /\ \E k \in 1 .. Len(chan) : \E i \in 1 .. Len(chan[k]) :
           IsTouch(chan[k][i]) /\ chan[k][i].device_id = 0

(***************************************************************************)
(* Frames: a finger may be down from a first frame; then a frame of        *)
(* FrameLen field writes follows, each of them a slot selection, a         *)
(* tracking id or an x position, in any order and with repetitions, and a  *)
(* boundary.                                                               *)
(***************************************************************************)
FrameWrites ==
    {RecSlot(0), RecSlot(1), RecTid(-1), RecTid(MaxTid), RecX(0),
     RecX(MaxRaw)}

\* what came before the frame: a boundary with no finger, or one with a
\* finger down in slot 0
FirstFrames ==
    {<<RecY(MaxRaw), RecSyn>>,
     <<RecTid(MaxTid), RecX(MaxRaw), RecY(MaxRaw), RecSyn>>}

\* the number of field writes in the frame
FrameLen == 3

\* the largest element of a non-empty set of numbers
Greatest(S) == CHOOSE i \in S : \A j \in S : j <= i

\* the records among the first n of recs that select a slot of the table,
\* and the slot selected once n records were read
Selections(recs, n) ==
    {i \in 1 .. n : /\ recs[i].type = EV_ABS /\ recs[i].code = ABS_MT_SLOT
                    /\ SlotInTable(recs[i].value)}
SelectedAfter(recs, n) ==
    IF Selections(recs, n) = {} THEN 0
    ELSE recs[Greatest(Selections(recs, n))].value

\* the records among the first n that write field `code` of slot s
WritesTo(recs, n, s, code) ==
    {i \in 1 .. n : /\ recs[i].type = EV_ABS /\ recs[i].code = code
                    /\ SelectedAfter(recs, i - 1) = s}

\* the value written last to field `code` of slot s by the first n records
LastWritten(recs, n, s, code, default) ==
    IF WritesTo(recs, n, s, code) = {} THEN default
    ELSE recs[Greatest(WritesTo(recs, n, s, code))].value

\* the number of records up to and including the last boundary among the
\* first n
LastBoundary(recs, n) ==
    LET B == {i \in 1 .. n : recs[i] = RecSyn}
    IN  IF B = {} THEN 0 ELSE Greatest(B)

\* what the first n records leave in slot s if only the value written last
\* to each field counts, and for has_pos whether x was written at all since
\* the last boundary
LatestValues(recs, n, s) ==
    [tracking_id |-> LastWritten(recs, n, s, ABS_MT_TRACKING_ID, -1),
     prev_tracking_id |->
         LastWritten(recs, LastBoundary(recs, n), s, ABS_MT_TRACKING_ID, -1),
     x |-> LastWritten(recs, n, s, ABS_MT_POSITION_X, 0),
     y |-> LastWritten(recs, n, s, ABS_MT_POSITION_Y, 0),
     has_pos |-> WritesTo(recs, n, s, ABS_MT_POSITION_X)
                     \ (1 .. LastBoundary(recs, n)) # {}]

\* the (slot, field) pairs the last frame of recs writes, the frame being
\* the records between the last two boundaries
SlotFields ==
    SlotIdx \X {ABS_MT_TRACKING_ID, ABS_MT_POSITION_X, ABS_MT_POSITION_Y}
PairsWritten(recs) ==
    {p \in SlotFields :
        WritesTo(recs, Len(recs), p[1], p[2])
            \ (1 .. LastBoundary(recs, Len(recs) - 1)) # {}}

\* two sequences write the same pairs, and the same last value to each
AgreeOnPairs(a, b) ==
    /\ PairsWritten(a) = PairsWritten(b)
    /\ \A p \in PairsWritten(a) :
           LastWritten(a, Len(a), p[1], p[2], 0)
               = LastWritten(b, Len(b), p[1], p[2], 0)

\* two sequences leave the same slot selected
AgreeOnSelection(a, b) == SelectedAfter(a, Len(a)) = SelectedAfter(b, Len(b))

(***************************************************************************)
(* SpecReorder: a frame of writes is delivered to one decoder, and to a    *)
(* second, fresh one the same frame with two neighbouring writes           *)
(* exchanged, or with one write replaced by a copy of its neighbour, such  *)
(* that both frames write the same pairs and the same last values.  What   *)
(* the first decoder was left with is kept in replay.state and             *)
(* replay.first, the frame it was given in replay.other.                   *)
(***************************************************************************)
Exchanged(w, i) ==
    [k \in 1 .. FrameLen |->
        IF k = i THEN w[i + 1] ELSE IF k = i + 1 THEN w[i] ELSE w[k]]
CopiedForward(w, i) ==
    [k \in 1 .. FrameLen |-> IF k = i + 1 THEN w[i] ELSE w[k]]
CopiedBackward(w, i) ==
    [k \in 1 .. FrameLen |-> IF k = i THEN w[i + 1] ELSE w[k]]
Variants(w) ==
    UNION {{Exchanged(w, i), CopiedForward(w, i), CopiedBackward(w, i)} :
              i \in 1 .. (FrameLen - 1)}

InitReorder ==
    \E c \in DispatchConfigs :
    \E first \in FirstFrames :
    \E w \in [1 .. FrameLen -> FrameWrites] :
    \E v \in Variants(w) :
        /\ AgreeOnPairs(first \o w \o <<RecSyn>>, first \o v \o <<RecSyn>>)
        /\ InitDecoder(c)
        /\ env = LoopEnv
        /\ input = [NoScript EXCEPT ![Dev].recs = first \o w \o <<RecSyn>>]
        /\ replay = [run |-> 1, first |-> <<>>, state |-> <<>>,
                     other |-> first \o v \o <<RecSyn>>]

\* the first decoder has read its frame: a fresh decoder is given the other
Reorder ==
    /\ replay.run = 1
    /\ \A d \in Devices : ScriptDone(d)
    /\ slots' = [d \in Devices |-> SlotTableDefault]
    /\ current_slot' = [d \in Devices |-> 0]
    /\ st_x' = [d \in Devices |-> 0]
    /\ st_y' = [d \in Devices |-> 0]
    /\ st_down' = [d \in Devices |-> FALSE]
    /\ st_was_down' = [d \in Devices |-> FALSE]
    /\ mappers' = [d \in Devices |-> Constructed(d)]
    /\ chan' = <<>>
    /\ last' = NoIteration
    /\ input' = [input EXCEPT ![Dev] = [recs |-> replay.other, done |-> 0]]
    /\ replay' = [run |-> 2, first |-> chan, state |-> DeviceState(Dev),
                  other |-> Script]
    /\ UNCHANGED <<screen, rotation, thread, env, boot, finder>>

NextReorder ==
    \/ NextScript
    \/ Reorder

SpecReorder == InitReorder /\ [][NextReorder]_vars

\* the second decoder has read its frame too, and is in the state and has
\* sent the batches of the first
SameOutcome ==
    (replay.run = 2 /\ ScriptDone(Dev)) =>
        (DeviceState(Dev) = replay.state /\ chan = replay.first)

(***************************************************************************)
(* C30 as stated.  Two sequences of writes between the same boundaries     *)
(* that write the same (slot, field) pairs and agree on the last value     *)
(* written to each pair leave the device in the same state and produce     *)
(* the same batch, whatever the order and the number of the writes.        *)
(***************************************************************************)
C30_AsStated == SameOutcome

(***************************************************************************)
(* C30  Only the latest value per field matters.  Two sequences of slot    *)
(* selections and field writes between the same boundaries that write the  *)
(* same (slot, field) pairs, agree on the last value written to each pair  *)
(* and leave the same slot selected, leave the device in the same state    *)
(* and produce the same batch at the next boundary, whatever the order and *)
(* the number of the writes; for after any number of records the slot      *)
(* table holds the value written last to each field, has_pos tells whether *)
(* x was written since the last boundary, current_slot is the slot         *)
(* selected last, and the batch of a boundary is computed from these.      *)
(***************************************************************************)
C30_LatestValueOnly ==
    /\ AgreeOnSelection(replay.other, Script) => SameOutcome
    /\ slots[Dev] = [s \in SlotIdx |-> LatestValues(Script, Done, s)]
    /\ current_slot[Dev] = SelectedAfter(Script, Done)
    /\ (Done > 0 /\ Script[Done] = RecSyn) =>
           Batch(last) =
               SlotLoop(Dev, 0,
                        [slots |-> [s \in SlotIdx |->
                                       LatestValues(Script, Done - 1, s)],
                         events |-> <<>>, primary |-> FALSE]).events

\* the second decoder was given the frame of the first with the two writes
\* of x to slot 0 in another place, the low value still the later one; both
\* hold x = 0 for the slot and have reported the touch
C30_Witness ==
    /\ replay.run = 2 /\ ScriptDone(Dev)
    /\ replay.other # Script
    /\ AgreeOnSelection(replay.other, Script)
    /\ <<0, ABS_MT_POSITION_X>> \in PairsWritten(Script)
    /\ \E i, j \in 1 .. Len(Script) :
           i < j /\ Script[i] = RecX(MaxRaw) /\ Script[j] = RecX(0)
    /\ chan # <<>> /\ chan = replay.first
    /\ DeviceState(Dev) = replay.state
    /\ slots[Dev][0].x = 0
    /\ \E i \in 1 .. Len(last.mt) : IsTouch(last.mt[i])

\* the iteration neither decoded a field write nor reached a boundary: the
\* read failed or came short, or the record is a sync other than
\* SYN_REPORT, a key other than BTN_TOUCH, an absolute axis the dispatch
\* does not know, or of a type it does not know
Inert(it) ==
    \/ it.read \in {"err", "short"}
    \/ /\ it.read = "ok"
       /\ \/ it.type = EV_SYN /\ it.code # SYN_REPORT
          \/ it.type = EV_KEY /\ it.code # BTN_TOUCH
          \/ /\ it.type = EV_ABS
             /\ it.code \notin {ABS_MT_SLOT, ABS_MT_TRACKING_ID,
                                ABS_MT_POSITION_X, ABS_MT_POSITION_Y,
                                ABS_X, ABS_Y}
          \/ it.type \notin {EV_SYN, EV_KEY, EV_ABS}

(***************************************************************************)
(* C22  Dropped and unrecognised input is inert.  An iteration of the      *)
(* loop whose read fails or comes short, or that reads a sync record other *)
(* than SYN_REPORT, a key record other than BTN_TOUCH, an absolute-axis    *)
(* record with an unknown code or a record of another type, changes no     *)
(* per-device state and no mapper, sends nothing, and leaves the thread in *)
(* the loop.                                                               *)
(***************************************************************************)
C22_InertInput ==
    [][(chan = <<>> /\ Inert(last')) =>
           /\ UNCHANGED <<devVars, cfgVars, chan>>
           /\ last'.mt = <<>> /\ last'.st = <<>>
           /\ thread' = "loop"]_vars

\* a short read in the middle of a touch: the finger of slot 0 and the
\* touch button are down, and stay so
C22_Witness ==
    /\ last.read = "short"
    /\ slots[Dev][0].tracking_id >= 0
    /\ slots[Dev][0].prev_tracking_id >= 0
    /\ st_down[Dev] /\ st_was_down[Dev]
    /\ chan = <<>>
    /\ thread = "loop"

(***************************************************************************)
(* find_touch_devices (input.rs 232-286).  The registry is a sequence of   *)
(* lines; a line is a name line `N: Name=` with its name, the capability   *)
(* line `B: ABS=`, a handlers line `H: Handlers=` with its words, a blank  *)
(* line, or any other line.  A name is a sequence of characters, a word of *)
(* a handlers line a stem and a number ("event", 3 for event3).            *)
(***************************************************************************)
NameLineOf(name) == [kind |-> "N", name |-> name]
AbsLineOf == [kind |-> "B_ABS"]
HandlersLineOf(parts) == [kind |-> "H", parts |-> parts]
BlankLineOf == [kind |-> "blank"]
OtherLineOf == [kind |-> "other"]
Part(stem, n) == [stem |-> stem, n |-> n]

\* format!("/dev/input/{}", part) and format!("/dev/input/event{}", i)
DevPath(part) == [dir |-> "/dev/input", stem |-> part.stem, n |-> part.n]

\* str::to_lowercase, on the letters that occur in the names of the model
Lower(ch) ==
    CASE ch = "T" -> "t"
      [] ch = "S" -> "s"
      [] ch = "F" -> "f"
      [] OTHER -> ch
ToLowercase(str) == [i \in DOMAIN str |-> Lower(str[i])]

\* str::contains
Contains(str, pat) ==
    \E i \in 0 .. (Len(str) - Len(pat)) :
        SubSeq(str, i + 1, i + Len(pat)) = pat

\* lines 242-245
IsTouchName(name) ==
    \/ Contains(ToLowercase(name), <<"t", "o", "u", "c", "h">>)
    \/ Contains(ToLowercase(name), <<"t", "s">>)
    \/ Contains(ToLowercase(name), <<"f", "i", "n", "g", "e", "r">>)

\* lines 256-260: the words that start with "event", as paths
RECURSIVE EventHandlers(_)
EventHandlers(parts) ==
    IF parts = <<>> THEN <<>>
    ELSE (IF Head(parts).stem = "event" THEN <<DevPath(Head(parts))>>
          ELSE <<>>) \o EventHandlers(Tail(parts))

\* the number of default device nodes the fallback looks at (`0..20`)
FallbackNodes == 20

\* lines 277-282: the nodes i..FallbackNodes-1 that exist, in that order
RECURSIVE ScanNodes(_, _)
ScanNodes(i, nodes) ==
    IF i >= FallbackNodes THEN <<>>
    ELSE (IF i \in nodes THEN <<DevPath(Part("event", i))>> ELSE <<>>)
         \o ScanNodes(i + 1, nodes)

\* the variables find_touch_devices and the start-up leave alone
loopVars == <<devVars, cfgVars, chan, input, last, replay, env>>

\* the frame of find_touch_devices when it is entered
FinderStart(registry, nodes) ==
    [registry |-> registry, nodes |-> nodes, rest |-> <<>>,
     current_handlers |-> <<>>, has_abs |-> FALSE, is_touch_name |-> FALSE,
     devices |-> <<>>, scanned |-> FALSE]

\* line 235: read_to_string succeeds
ReadRegistry ==
    /\ thread = "find"
    /\ finder.registry.read = "ok"
    /\ finder' = [finder EXCEPT !.rest = finder.registry.data]
    /\ thread' = "lines"
    /\ UNCHANGED <<loopVars, boot>>

\* line 235: read_to_string fails, the `if let` body is skipped
RegistryUnreadable ==
    /\ thread = "find"
    /\ finder.registry.read = "err"
    /\ thread' = "parsed"
    /\ UNCHANGED <<loopVars, boot, finder>>

NextLine(kind) ==
    /\ thread = "lines"
    /\ finder.rest # <<>>
    /\ Head(finder.rest).kind = kind

\* lines 241-247
NameLine ==
    /\ NextLine("N")
    /\ finder' = [finder EXCEPT
                      !.is_touch_name = IsTouchName(Head(finder.rest).name),
                      !.has_abs = FALSE,
                      !.current_handlers = <<>>,
                      !.rest = Tail(@)]
    /\ UNCHANGED <<loopVars, boot, thread>>

\* lines 248-253
AbsLine ==
    /\ NextLine("B_ABS")
    /\ finder' = [finder EXCEPT !.has_abs = TRUE, !.rest = Tail(@)]
    /\ UNCHANGED <<loopVars, boot, thread>>

\* lines 254-260
HandlersLine ==
    /\ NextLine("H")
    /\ finder' = [finder EXCEPT
                      !.current_handlers =
                          EventHandlers(Head(finder.rest).parts),
                      !.rest = Tail(@)]
    /\ UNCHANGED <<loopVars, boot, thread>>

\* lines 261-270
BlankLine ==
    /\ NextLine("blank")
    /\ finder' = [finder EXCEPT
                      !.devices =
                          IF /\ finder.has_abs
                             /\ \/ finder.is_touch_name
                                \/ finder.current_handlers # <<>>
                          THEN @ \o finder.current_handlers
                          ELSE @,
                      !.has_abs = FALSE,
                      !.is_touch_name = FALSE,
                      !.current_handlers = <<>>,
                      !.rest = Tail(@)]
    /\ UNCHANGED <<loopVars, boot, thread>>

\* a line none of the tests of the loop matches
OtherLine ==
    /\ NextLine("other")
    /\ finder' = [finder EXCEPT !.rest = Tail(@)]
    /\ UNCHANGED <<loopVars, boot, thread>>

\* data.lines() is exhausted
LinesDone ==
    /\ thread = "lines"
    /\ finder.rest = <<>>
    /\ thread' = "parsed"
    /\ UNCHANGED <<loopVars, boot, finder>>

\* a variant of lines 276-283 whose scan starts at node 1
FallbackScanFromOne ==
    /\ thread = "parsed"
    /\ finder.devices = <<>>
    /\ finder' = [finder EXCEPT
                      !.devices = ScanNodes(1, finder.nodes),
                      !.scanned = TRUE]
    /\ thread' = "found"
    /\ UNCHANGED <<loopVars, boot>>

\* lines 276-285: `if devices.is_empty()`, the scan, and the return
FallbackScan ==
    /\ thread = "parsed"
    /\ finder.devices = <<>>
    /\ finder' = [finder EXCEPT
                      !.devices = ScanNodes(0, finder.nodes),
                      !.scanned = TRUE]
    /\ thread' = "found"
    /\ UNCHANGED <<loopVars, boot>>

\* lines 276, 285: devices is not empty, and is returned
NoFallback ==
    /\ thread = "parsed"
    /\ finder.devices # <<>>
    /\ thread' = "found"
    /\ UNCHANGED <<loopVars, boot, finder>>

\* a variant of lines 301-304 that treats an empty list as fatal
NoDevicesPanics ==
    /\ thread = "found"
    /\ finder.devices = <<>>
    /\ thread' = "panicked"
    /\ UNCHANGED <<loopVars, boot, finder>>

\* start_input_thread, lines 300-304: no device, warn and return
NoDevices ==
    /\ thread = "found"
    /\ finder.devices = <<>>
    /\ thread' = "returned"
    /\ UNCHANGED <<loopVars, boot, finder>>

\* start_input_thread, lines 300-301: a device was found
DevicesFound ==
    /\ thread = "found"
    /\ finder.devices # <<>>
    /\ boot' = [boot EXCEPT !.devices = finder.devices]
    /\ thread' = "open"
    /\ UNCHANGED <<loopVars, finder>>

(***************************************************************************)
(* Registries.  A device block is written in the order the kernel uses:    *)
(* the identity line, the name, the handlers, the capability lines.  The   *)
(* blank line after the last block may be missing.                         *)
(***************************************************************************)
MaxBlocks == 2

Names ==
    {<<"T", "o", "u", "c", "h">>, <<"k", "e", "y", "s">>, <<"F", "T", "S">>}

PartLists ==
    {<<>>, <<Part("event", 0)>>,
     <<Part("mouse", 0), Part("event", 2), Part("event", 1)>>}

BlockLines(name, parts, abs) ==
    <<OtherLineOf, NameLineOf(name), HandlersLineOf(parts)>>
        \o (IF abs THEN <<AbsLineOf>> ELSE <<OtherLineOf>>)

DeviceBlocks ==
    {BlockLines(name, parts, abs) :
        name \in Names, parts \in PartLists, abs \in BOOLEAN}

RECURSIVE Joined(_, _)
Joined(blocks, terminated) ==
    IF blocks = <<>> THEN <<>>
    ELSE Head(blocks)
         \o (IF Len(blocks) > 1 \/ terminated THEN <<BlankLineOf>> ELSE <<>>)
         \o Joined(Tail(blocks), terminated)

Registries ==
    {[read |-> "err", data |-> <<>>]} \cup
    {[read |-> "ok", data |-> Joined(blocks, terminated)] :
        blocks \in UNION {[1 .. n -> DeviceBlocks] : n \in 0 .. MaxBlocks},
        terminated \in BOOLEAN}

\* the device nodes that exist under /dev/input
NodeSets == {{}, {0, FallbackNodes - 1, FallbackNodes}}

\* the state in which start_input_thread(screen_w, screen_h) is entered:
\* no per-device state exists yet
InitThread(c) ==
    /\ slots = <<>>
    /\ current_slot = <<>>
    /\ st_x = <<>>
    /\ st_y = <<>>
    /\ st_down = <<>>
    /\ st_was_down = <<>>
    /\ mappers = <<>>
    /\ screen = [w |-> c.w, h |-> c.h]
    /\ rotation = c.r
    /\ chan = <<>>
    /\ last = NoIteration
    /\ replay = [run |-> 1, first |-> <<>>]

InitEnumerate ==
    \E c \in DispatchConfigs, registry \in Registries, nodes \in NodeSets :
        /\ InitThread(c)
        /\ input = NoScript
        /\ env = LoopEnv
        /\ boot = NoBoot
        /\ thread = "find"
        /\ finder = FinderStart(registry, nodes)

NextEnumerate ==
    \/ ReadRegistry
    \/ RegistryUnreadable
    \/ NameLine
    \/ AbsLine
    \/ HandlersLine
    \/ BlankLine
    \/ OtherLine
    \/ LinesDone
    \/ FallbackScan
    \/ NoFallback
    \/ NoDevices
    \/ DevicesFound

SpecEnumerate == InitEnumerate /\ [][NextEnumerate]_vars

\* the blocks of a registry: the runs of lines between blank lines
RECURSIVE BlocksOf(_, _)
BlocksOf(lines, cur) ==
    IF lines = <<>> THEN (IF cur = <<>> THEN <<>> ELSE <<cur>>)
    ELSE IF Head(lines).kind = "blank"
         THEN <<cur>> \o BlocksOf(Tail(lines), <<>>)
         ELSE BlocksOf(Tail(lines), Append(cur, Head(lines)))

AdvertisesAbs(block) == \E i \in DOMAIN block : block[i].kind = "B_ABS"

NameMatches(block) ==
    \E i \in DOMAIN block :
        block[i].kind = "N" /\ IsTouchName(block[i].name)

RECURSIVE HandlerPaths(_)
HandlerPaths(block) ==
    IF block = <<>> THEN <<>>
    ELSE (IF Head(block).kind = "H" THEN EventHandlers(Head(block).parts)
          ELSE <<>>) \o HandlerPaths(Tail(block))

Accepted(block) ==
    /\ AdvertisesAbs(block)
    /\ NameMatches(block) \/ HandlerPaths(block) # <<>>

RECURSIVE Contribution(_)
Contribution(blocks) ==
    IF blocks = <<>> THEN <<>>
    ELSE (IF Accepted(Head(blocks)) THEN HandlerPaths(Head(blocks))
          ELSE <<>>) \o Contribution(Tail(blocks))

\* C28: when the pass over the registry ends, the paths collected are the
\* handler paths of the accepted blocks of the registry, every block
\* between blank lines counted, the last one too, in registry order.
C28_EnumeratorAcceptance ==
    (thread = "parsed" /\ finder.registry.read = "ok") =>
        finder.devices = Contribution(BlocksOf(finder.registry.data, <<>>))

\* the same for the registries that end with a blank line
EnumeratorAcceptanceTerminated ==
    (/\ thread = "parsed"
     /\ finder.registry.read = "ok"
     /\ finder.registry.data # <<>>
     /\ finder.registry.data[Len(finder.registry.data)].kind = "blank") =>
        finder.devices = Contribution(BlocksOf(finder.registry.data, <<>>))

\* s lists the existing default nodes, ascending
AscendingNodes(s, nodes) ==
    /\ \A i \in DOMAIN s :
           /\ s[i].dir = "/dev/input" /\ s[i].stem = "event"
           /\ s[i].n \in nodes /\ s[i].n >= 0 /\ s[i].n <= 19
    /\ \A n \in nodes : (n >= 0 /\ n <= 19) => \E i \in DOMAIN s : s[i].n = n
    /\ \A i, j \in DOMAIN s : i < j => s[i].n < s[j].n

\* C29: the default nodes 0..19 are probed exactly when the pass over the
\* registry, unreadable or not, ends with no path; then the existing ones
\* are returned in ascending order, otherwise the paths of the registry;
\* the enumeration always returns.
C29_EnumeratorFallback ==
    [][(thread = "parsed" /\ thread' # "parsed") =>
           /\ thread' = "found"
           /\ finder'.scanned <=>
                  (finder.registry.read = "err" \/ finder.devices = <<>>)
           /\ finder.registry.read = "err" => finder.devices = <<>>
           /\ IF finder'.scanned
              THEN AscendingNodes(finder'.devices, finder.nodes)
              ELSE finder'.devices = finder.devices]_vars

C29_Witness ==
    /\ thread = "found"
    /\ finder.scanned
    /\ finder.registry.read = "ok"
    /\ finder.registry.data # <<>>
    /\ Len(finder.devices) = 2

\* C23: with no device found the thread returns, nothing is ever sent and
\* the drain of the consumer never finds a batch.
C23_DiscoveryFailure ==
    /\ [][/\ (thread = "found" /\ finder.devices = <<>>) =>
                  (thread' = "returned" /\ chan' = <<>>)
          /\ thread = "returned" => UNCHANGED vars]_vars
    /\ [](thread = "returned" => (chan = <<>> /\ ~ENABLED TryRecv))

C23_Witness ==
    /\ thread = "returned"
    /\ finder.devices = <<>>
    /\ finder.scanned
    /\ finder.nodes = {}
    /\ chan = <<>>

(***************************************************************************)
(* The start-up of the input thread (input.rs 306-398): the devices are    *)
(* opened, the per-device state is allocated, the axis ranges are probed,  *)
(* the mappers are built and the files are registered with epoll.  What    *)
(* the system answers is in env: the paths that can be opened, the         *)
(* input_absinfo each path reports for an axis, and whether epoll_create1  *)
(* succeeds.  In this part of the model input is indexed by path.          *)
(***************************************************************************)
\* Option<(i32, i32)>
None == [some |-> FALSE]
Some(r) == [some |-> TRUE, val |-> r]
OrElse(a, b) == IF a.some THEN a ELSE b

AbsInfo(ret, minimum, maximum) ==
    [ret |-> ret, minimum |-> minimum, maximum |-> maximum]

\* a variant of read_abs_range that takes an empty range for a range
ReadAbsRangeTakesEmpty(info) ==
    IF info.ret = 0 /\ info.maximum >= info.minimum
    THEN Some(<<info.minimum, info.maximum>>)
    ELSE None

\* read_abs_range, given what the ioctl left in info
read_abs_range(info) ==
    IF info.ret = 0 /\ info.maximum > info.minimum
    THEN Some(<<info.minimum, info.maximum>>)
    ELSE None

\* line 332: vec![(0, 32767); num_devices]
DefaultRange == <<0, 32767>>

\* lines 345-348 and 353-356 for one dimension
SeedRange(answers, mt_axis, st_axis) ==
    LET r == OrElse(read_abs_range(answers[mt_axis]),
                    read_abs_range(answers[st_axis]))
    IN  IF r.some THEN r.val ELSE DefaultRange

\* the device indices of the running thread
DevIdx == 0 .. (Len(boot.files) - 1)

\* a variant of lines 308-315 in which a candidate that cannot be opened
\* keeps its place in files
OpenDeviceKeepsPlace ==
    /\ thread = "open"
    /\ boot.next <= Len(boot.devices)
    /\ boot' = [boot EXCEPT
                    !.files = Append(@, [path |-> boot.devices[boot.next],
                                        fd |-> Len(@)]),
                    !.next = @ + 1]
    /\ UNCHANGED <<loopVars, thread, finder>>

\* lines 308-315: File::open of the next candidate; Err is dropped by .ok()
OpenDevice ==
    /\ thread = "open"
    /\ boot.next <= Len(boot.devices)
    /\ boot' = [boot EXCEPT
                    !.files =
                        IF boot.devices[boot.next] \in env.opens
                        THEN Append(@, [path |-> boot.devices[boot.next],
                                        fd |-> Len(@)])
                        ELSE @,
                    !.next = @ + 1]
    /\ UNCHANGED <<loopVars, thread, finder>>

\* lines 317-320
NoFiles ==
    /\ thread = "open"
    /\ boot.next > Len(boot.devices)
    /\ boot.files = <<>>
    /\ thread' = "returned"
    /\ UNCHANGED <<loopVars, boot, finder>>

\* lines 322-340
AllocState ==
    /\ thread = "open"
    /\ boot.next > Len(boot.devices)
    /\ boot.files # <<>>
    /\ slots' = [d \in DevIdx |-> SlotTableDefault]
    /\ current_slot' = [d \in DevIdx |-> 0]
    /\ st_x' = [d \in DevIdx |-> 0]
    /\ st_y' = [d \in DevIdx |-> 0]
    /\ st_down' = [d \in DevIdx |-> FALSE]
    /\ st_was_down' = [d \in DevIdx |-> FALSE]
    /\ boot' = [boot EXCEPT
                    !.ioctl_range_x = [d \in DevIdx |-> DefaultRange],
                    !.ioctl_range_y = [d \in DevIdx |-> DefaultRange],
                    !.next = 0]
    /\ thread' = "seed"
    /\ UNCHANGED <<cfgVars, chan, input, last, replay, env, finder>>

\* lines 343-361, one turn of the loop
SeedDevice ==
    /\ thread = "seed"
    /\ boot.next < Len(boot.files)
    /\ LET dev_idx == boot.next
           answers == env.absinfo[boot.files[dev_idx + 1].path]
       IN  boot' = [boot EXCEPT
                        !.ioctl_range_x[dev_idx] =
                            SeedRange(answers, ABS_MT_POSITION_X, ABS_X),
                        !.ioctl_range_y[dev_idx] =
                            SeedRange(answers, ABS_MT_POSITION_Y, ABS_Y),
                        !.next = @ + 1]
    /\ UNCHANGED <<loopVars, thread, finder>>

\* `ioctl.1 - ioctl.0` (lines 115-116) overflows an i32
SpanOverflows(d) ==
    \/ ~SpanFits(boot.ioctl_range_x[d])
    \/ ~SpanFits(boot.ioctl_range_y[d])

\* lines 364-372
BuildMappers ==
    /\ thread = "seed"
    /\ boot.next = Len(boot.files)
    /\ ~(env.overflow_checks /\ \E d \in DevIdx : SpanOverflows(d))
    /\ mappers' = [d \in DevIdx |->
                      CoordMapperNew(boot.ioctl_range_x[d],
                                     boot.ioctl_range_y[d],
                                     screen.w, screen.h, rotation)]
    /\ thread' = "epoll"
    /\ UNCHANGED <<devVars, screen, rotation, chan, input, last, replay,
                   env, boot, finder>>

\* lines 364-372 in a build with overflow checks: the subtraction of
\* CoordMapper::new panics, the thread unwinds
BuildMappersPanics ==
    /\ thread = "seed"
    /\ boot.next = Len(boot.files)
    /\ env.overflow_checks
    /\ \E d \in DevIdx : SpanOverflows(d)
    /\ thread' = "panicked"
    /\ UNCHANGED <<loopVars, boot, finder>>

\* lines 375-379
EpollCreateFails ==
    /\ thread = "epoll"
    /\ env.epoll_create1 = "err"
    /\ thread' = "returned"
    /\ UNCHANGED <<loopVars, boot, finder>>

\* lines 375, 381-398: every file is entered in fd_to_dev and added to the
\* epoll instance
EpollSetup ==
    /\ thread = "epoll"
    /\ env.epoll_create1 = "ok"
    /\ boot' = [boot EXCEPT
                    !.fd_to_dev = {<<boot.files[i].fd, i - 1>> :
                                       i \in DOMAIN boot.files},
                    !.interest = {boot.files[i].fd : i \in DOMAIN boot.files}]
    /\ thread' = "loop"
    /\ UNCHANGED <<loopVars, finder>>

\* lines 414-432: fd is ready and has the device index dev_idx; the next
\* record of its file has this type and code, and is read
ReadsFile(fd, dev_idx, type, code) ==
    /\ thread = "loop"
    /\ fd \in boot.interest
    /\ <<fd, dev_idx>> \in boot.fd_to_dev
    /\ LET path == boot.files[dev_idx + 1].path
       IN  /\ input[path].done < Len(input[path].recs)
           /\ input[path].recs[input[path].done + 1].type = type
           /\ input[path].recs[input[path].done + 1].code = code
           /\ input' = [input EXCEPT ![path].done = @ + 1]

\* the value of the record ReadsFile reads
ValueRead(dev_idx) ==
    LET path == boot.files[dev_idx + 1].path
    IN  input[path].recs[input[path].done + 1].value

Fds == 0 .. (NumDevices - 1)

NextStartup ==
    \/ OpenDevice
    \/ NoFiles
    \/ AllocState
    \/ SeedDevice
    \/ BuildMappers
    \/ BuildMappersPanics
    \/ EpollCreateFails
    \/ EpollSetup
    \/ \E fd \in Fds, d \in Devices :
          /\ ReadsFile(fd, d, EV_ABS, ABS_MT_TRACKING_ID)
          /\ AbsMtTrackingId(d, ValueRead(d))
    \/ \E fd \in Fds, d \in Devices :
          /\ ReadsFile(fd, d, EV_ABS, ABS_MT_POSITION_X)
          /\ AbsMtPositionX(d, ValueRead(d))
    \/ \E fd \in Fds, d \in Devices :
          /\ ReadsFile(fd, d, EV_ABS, ABS_MT_POSITION_Y)
          /\ AbsMtPositionY(d, ValueRead(d))
    \/ \E fd \in Fds, d \in Devices :
          /\ ReadsFile(fd, d, EV_SYN, SYN_REPORT)
          /\ SynReport(d)

\* the candidate paths of the start-up
Event0 == DevPath(Part("event", 0))
Event1 == DevPath(Part("event", 1))
Paths == {Event0, Event1}

Candidates == {<<Event0>>, <<Event0, Event1>>, <<Event1, Event0>>}

\* what a device answers to EVIOCGABS for the four position axes
Answers(mt_x, mt_y, st_x_, st_y_) ==
    (ABS_MT_POSITION_X :> mt_x) @@ (ABS_MT_POSITION_Y :> mt_y)
        @@ (ABS_X :> st_x_) @@ (ABS_Y :> st_y_)

\* the ioctl fails and leaves info as initialised (lines 209-216)
Fails == AbsInfo(-1, 0, 0)

AnswerSets ==
    {Answers(a, b, c, d) :
        a \in {Fails, AbsInfo(0, 0, 0), AbsInfo(0, 0, MaxRaw)},
        b \in {Fails, AbsInfo(0, 1, MaxRaw)},
        c \in {Fails, AbsInfo(0, 1, 0), AbsInfo(0, 0, MaxRaw + 1)},
        d \in {Fails, AbsInfo(0, 1, MaxRaw + 1)}}
    \cup {Answers(AbsInfo(0, -2147483647, 1), AbsInfo(0, 0, 1), Fails, Fails)}

\* the records each device delivers once the loop runs
Streams ==
    (Event0 :> [recs |-> <<RecTid(0), RecY(MaxRaw), RecX(0), RecSyn>>,
                done |-> 0])
        @@ (Event1 :> [recs |-> <<RecTid(1), RecX(MaxRaw), RecSyn>>,
                       done |-> 0])

StartupConfigs == {Config(DefaultRange, DefaultRange, 1, 1, 0)}

BootStart(devices) ==
    [devices |-> devices, next |-> 1, files |-> <<>>,
     ioctl_range_x |-> <<>>, ioctl_range_y |-> <<>>,
     fd_to_dev |-> {}, interest |-> {}]

InitStartup ==
    \E c \in StartupConfigs, devices \in Candidates,
       opens \in SUBSET Paths, first \in AnswerSets,
       second \in {Answers(Fails, Fails, Fails, Fails),
                   Answers(AbsInfo(0, 0, MaxRaw), AbsInfo(0, 1, MaxRaw),
                           Fails, Fails)},
       epoll \in {"ok", "err"}, checks \in BOOLEAN :
        /\ InitThread(c)
        /\ input = Streams
        /\ env = [overflow_checks |-> checks, receiver |-> "held",
                  opens |-> opens,
                  absinfo |-> (Event0 :> first) @@ (Event1 :> second),
                  epoll_create1 |-> epoll]
        /\ boot = BootStart(devices)
        /\ thread = "open"
        /\ finder = [devices |-> devices]

SpecStartup == InitStartup /\ [][NextStartup]_vars

\* the range of device d has been probed
Seeded(d) ==
    /\ d \in DOMAIN boot.ioctl_range_x
    /\ thread = "seed" => d < boot.next

\* the query succeeded and reported a range with max > min
Reported(info) == info.ret = 0 /\ ~(info.maximum <= info.minimum)

\* C27: a probe gives no range when the query fails or reports max <= min;
\* the range of a dimension is the one of the multitouch axis if that probe
\* gives one, else the one of the single-touch axis, else (0, 32767); every
\* range a mapper is built from has max > min.
C27_AxisRangeSelection ==
    \A d \in DOMAIN boot.ioctl_range_x :
        Seeded(d) =>
            LET a == env.absinfo[boot.files[d + 1].path]
                chosen(mt, st) ==
                    IF Reported(a[mt]) THEN <<a[mt].minimum, a[mt].maximum>>
                    ELSE IF Reported(a[st])
                         THEN <<a[st].minimum, a[st].maximum>>
                         ELSE <<0, 32767>>
                rx == boot.ioctl_range_x[d]
                ry == boot.ioctl_range_y[d]
            IN  /\ \A axis \in DOMAIN a :
                       read_abs_range(a[axis]).some <=> Reported(a[axis])
                /\ rx = chosen(ABS_MT_POSITION_X, ABS_X)
                /\ ry = chosen(ABS_MT_POSITION_Y, ABS_Y)
                /\ rx[2] > rx[1] /\ ry[2] > ry[1]
                /\ d \in DOMAIN mappers =>
                       /\ mappers[d].raw_x_min = rx[1]
                       /\ mappers[d].raw_x_max = rx[2]
                       /\ mappers[d].raw_y_min = ry[1]
                       /\ mappers[d].raw_y_max = ry[2]

C27_Witness ==
    /\ thread = "loop"
    /\ boot.files[1].path = Event0
    /\ env.absinfo[Event0][ABS_MT_POSITION_X] = AbsInfo(0, 0, 0)
    /\ env.absinfo[Event0][ABS_MT_POSITION_Y] = Fails
    /\ env.absinfo[Event0][ABS_Y] = Fails
    /\ mappers[0].raw_x_max = MaxRaw + 1
    /\ mappers[0].raw_y_max = 32767

\* the candidates that can be opened, in the order they were listed
Listed == SelectSeq(boot.devices, LAMBDA p : p \in env.opens)

\* C24: in the running loop the files, the poller's interest list, the
\* per-device state, the ranges and the mappers are those of the listed
\* devices that could be opened, indexed in that order, and the records of
\* each are decoded into the state of that index.
C24_OpenFailure ==
    thread = "loop" =>
        LET n == Len(Listed) IN
        /\ n > 0
        /\ Len(boot.files) = n
        /\ \A i \in 1 .. n : boot.files[i].path = Listed[i]
        /\ \A i, j \in 1 .. n : i # j => boot.files[i].fd # boot.files[j].fd
        /\ boot.interest = {boot.files[i].fd : i \in 1 .. n}
        /\ boot.fd_to_dev = {<<boot.files[i].fd, i - 1>> : i \in 1 .. n}
        /\ DOMAIN slots = 0 .. (n - 1)
        /\ DOMAIN mappers = 0 .. (n - 1)
        /\ DOMAIN st_down = 0 .. (n - 1)
        /\ \A d \in 0 .. (n - 1) :
               LET path == Listed[d + 1]
                   a == env.absinfo[path]
                   s == input[path]
               IN  /\ mappers[d] =
                          CoordMapperNew(
                              SeedRange(a, ABS_MT_POSITION_X, ABS_X),
                              SeedRange(a, ABS_MT_POSITION_Y, ABS_Y),
                              screen.w, screen.h, rotation)
                   /\ slots[d][0].tracking_id =
                          (IF s.done >= 1 THEN s.recs[1].value ELSE -1)
                   /\ \A i \in 1 .. Len(chan) :
                          \A k \in DOMAIN chan[i] :
                              (/\ IsTouch(chan[i][k])
                               /\ chan[i][k].device_id = d)
                                  => /\ s.done = Len(s.recs)
                                     /\ chan[i][k].id = d * 1000

C24_Witness ==
    /\ thread = "loop"
    /\ boot.devices = <<Event0, Event1>>
    /\ env.opens = {Event1}
    /\ chan # <<>>
    /\ IsTouch(chan[1][1]) /\ chan[1][1].device_id = 0
    /\ slots[0][0].tracking_id = 1

\* C25: when epoll_create1 fails the thread returns without having read a
\* record or sent a batch, and nothing else ends the thread once a device
\* has been opened.
C25_EpollSetupFailure ==
    /\ env.epoll_create1 = "err" =>
           (thread # "loop" /\ chan = <<>> /\ input = Streams)
    /\ (thread \in {"returned", "panicked"} /\ boot.files # <<>>) =>
           (thread = "returned" /\ env.epoll_create1 = "err")

\* the axis ranges of every candidate have a span within an i32
NarrowRanges ==
    \A p \in Paths :
        \A axis \in DOMAIN env.absinfo[p] :
            SpanFits(<<env.absinfo[p][axis].minimum,
                       env.absinfo[p][axis].maximum>>)

\* the same for devices whose ranges have a span within an i32
EpollSetupFailureNarrow ==
    /\ env.epoll_create1 = "err" =>
           (thread # "loop" /\ chan = <<>> /\ input = Streams)
    /\ (/\ thread \in {"returned", "panicked"}
        /\ boot.files # <<>>
        /\ NarrowRanges) =>
           (thread = "returned" /\ env.epoll_create1 = "err")

(***************************************************************************)
(* SpecLoop: the dispatch loop under everything that can happen to it.     *)
(* The device reports X from -2, sends coordinates up to i32::MAX, its     *)
(* reads fail or come short, epoll_wait times out or fails, and the        *)
(* consumer may drop the receiver.  The build has overflow checks or not.  *)
(***************************************************************************)
\* lines 401-412: epoll_wait returns 0 (timeout) or -1, `continue`
PollIdle(nfds) ==
    /\ nfds \in {0, -1}
    /\ last' = Iteration(0, IF nfds = 0 THEN "timeout" ELSE "poll_err",
                         0, 0, <<>>, <<>>)
    /\ UNCHANGED <<devVars, cfgVars, envVars, chan>>

\* main.rs: the receiver is dropped with the consumer; what was queued is
\* dropped with it
DropReceiver ==
    /\ env.receiver = "held"
    /\ env' = [env EXCEPT !.receiver = "dropped"]
    /\ chan' = <<>>
    /\ UNCHANGED <<devVars, cfgVars, input, last, replay, thread, boot, finder>>

LoopConfigs == {Config(<<-2, MaxRaw>>, <<0, MaxRaw>>, 1, 1, 0)}

\* the coordinates the device of SpecLoop sends
LoopRaw == {MaxRaw, 2147483647}

InitLoop ==
    \E c \in LoopConfigs, checks \in BOOLEAN :
        /\ InitDecoder(c)
        /\ env = [overflow_checks |-> checks, receiver |-> "held"]
        /\ replay = [run |-> 1, first |-> <<>>]
        /\ input = NoScript

\* the thread is in the loop and the consumer has drained the channel
Looping == thread = "loop" /\ Drained

NextLoop ==
    \/ \E v \in {0, -1} : Looping /\ AbsMtTrackingId(Dev, v)
    \/ \E v \in LoopRaw : Looping /\ AbsMtPositionX(Dev, v)
    \/ \E v \in LoopRaw : Looping /\ AbsX(Dev, v)
    \/ \E v \in {0, 1} : Looping /\ KeyBtnTouch(Dev, v)
    \/ Looping /\ SynReport(Dev)
    \/ Looping /\ SyncBoundaryPanics(Dev)
    \/ \E r \in {"err", "short"} : Looping /\ ReadDropped(Dev, r)
    \/ \E nfds \in {0, -1} : Looping /\ PollIdle(nfds)
    \/ TryRecv
    \/ DropReceiver

SpecLoop == InitLoop /\ [][NextLoop]_vars

\* C26: once in the loop the thread stays in the loop, whatever it reads,
\* whatever epoll_wait returns and whether or not the send succeeds.
C26_LoopNeverExits == [][thread = "loop" => thread' = "loop"]_vars

\* the same for a build without overflow checks
LoopNeverExitsWrapping ==
    [][(thread = "loop" /\ ~env.overflow_checks) => thread' = "loop"]_vars

\* a boundary whose batch is sent to a dropped receiver leaves the thread in
\* the loop
FailedSendGoesOn ==
    [][(/\ thread = "loop"
        /\ env.receiver = "dropped"
        /\ last'.code = SYN_REPORT /\ last'.type = EV_SYN
        /\ last'.mt # <<>>) => (thread' = "loop" /\ chan' = <<>>)]_vars

\* the raw points the boundary just handled has normalised: the positions
\* of the slots that emitted, or the single-touch position when none did
Normalised ==
    IF last.read = "ok" /\ last.type = EV_SYN /\ last.code = SYN_REPORT
    THEN IF last.mt = <<>>
         THEN {<<st_x[last.dev], st_y[last.dev]>>}
         ELSE {<<slots[last.dev][last.mt[i].id - last.dev * 1000].x,
                 slots[last.dev][last.mt[i].id - last.dev * 1000].y>> :
                   i \in {j \in DOMAIN last.mt : last.mt[j].kind = "Touch"}}
    ELSE {}

\* C31: the mapper never raises: the thread never panics in it, no span
\* max - min of a mapper and no offset raw - min of a normalised point
\* leaves the signed 32-bit range.
C31_MapperNeverRaises ==
    /\ thread # "panicked"
    /\ \A d \in DOMAIN mappers :
           /\ ~SubOverflows(mappers[d].raw_x_max, mappers[d].raw_x_min)
           /\ ~SubOverflows(mappers[d].raw_y_max, mappers[d].raw_y_min)
    /\ \A p \in Normalised :
           /\ ~SubOverflows(p[1], mappers[last.dev].raw_x_min)
           /\ ~SubOverflows(p[2], mappers[last.dev].raw_y_min)

\* the same for raw coordinates within the range of the axis
MapperNeverRaisesInRange ==
    (\A d \in DOMAIN mappers :
         /\ st_x[d] <= mappers[d].raw_x_max
         /\ \A s \in SlotIdx : slots[d][s].x <= mappers[d].raw_x_max)
        => C31_MapperNeverRaises

\* the phases, in order, are a prefix of (Start Move* End)*; down tells
\* whether a Start without its End precedes them
RECURSIVE WellFormed(_, _)
WellFormed(touches, down) ==
    IF touches = <<>> THEN TRUE
    ELSE CASE Head(touches).phase = "Start" ->
                  ~down /\ WellFormed(Tail(touches), TRUE)
           [] Head(touches).phase = "Move" ->
                  down /\ WellFormed(Tail(touches), TRUE)
           [] Head(touches).phase = "End" ->
                  down /\ WellFormed(Tail(touches), FALSE)
           [] OTHER -> FALSE

\* C32: for every slot the touch events sent so far with the finger id of
\* the slot are a prefix of (Start Move* End)*.
C32_PhaseSequence ==
    \A s \in SlotIdx : WellFormed(SlotTouches(Flatten(chan), Dev, s), FALSE)

\* the same for the sessions in which every tracking id arrives in one
\* frame with a position
PhaseSequenceWithPosition ==
    (\E s \in SlotIdx, t \in Occupying :
         \/ \E x \in RawValues, y \in RawValues :
                Script = LifecycleScript(s, t, x, y)
         \/ \E w \in SecondFrameWrites :
                Script = SecondFrameScript(s, t, MaxRaw, MaxRaw, w))
        => C32_PhaseSequence

\* C33: at a boundary of a device on which a multitouch contact goes on (a
\* slot occupied at the previous boundary and still occupied) the fallback
\* emits nothing, whether or not a slot produced a phase, and its
\* was-pressed state follows the pressed state.
C33_NoFallbackDuringContact ==
    [][LET d == last'.dev
       IN  (/\ Boundary
            /\ \E s \in SlotIdx :
                   /\ slots[d][s].prev_tracking_id >= 0
                   /\ slots[d][s].tracking_id >= 0) =>
               /\ last'.st = <<>>
               /\ st_was_down'[d] = st_down[d]]_vars

\* the same at the boundaries at which a slot produced a phase, for the
\* events alone
NoFallbackWhenSlotEmits ==
    [][LET d == last'.dev
       IN  (/\ Boundary
            /\ last'.mt # <<>>
            /\ \E s \in SlotIdx :
                   /\ slots[d][s].prev_tracking_id >= 0
                   /\ slots[d][s].tracking_id >= 0) =>
               last'.st = <<>>]_vars

(***************************************************************************)
(* SpecFingers: scripted sessions of two fingers in two slots, either      *)
(* overlapping in time or one after the other; nothing drains the channel. *)
(***************************************************************************)
\* finger a down, finger b down, finger b up, finger a up
OverlapScript(a, b, x) ==
    <<RecSlot(a), RecTid(0), RecX(x), RecY(x), RecSyn,
      RecSlot(b), RecTid(MaxTid), RecX(x), RecY(x), RecSyn,
      RecTid(-1), RecSyn,
      RecSlot(a), RecTid(-1), RecSyn>>

\* finger a down and up, then finger b down and up
SequentialScript(a, b, x) ==
    <<RecSlot(a), RecTid(0), RecX(x), RecY(x), RecSyn, RecTid(-1), RecSyn,
      RecSlot(b), RecTid(MaxTid), RecX(x), RecY(x), RecSyn,
      RecTid(-1), RecSyn>>

InitFingers ==
    \E c \in DispatchConfigs, a \in SlotIdx, b \in SlotIdx, x \in RawValues :
        /\ a # b
        /\ InitWith(c)
        /\ \/ input = [NoScript EXCEPT ![Dev].recs = OverlapScript(a, b, x)]
           \/ input = [NoScript EXCEPT ![Dev].recs = SequentialScript(a, b, x)]

SpecFingers == InitFingers /\ [][NextScript]_vars

IsButton(e) == e.kind = "PointerButton"

\* presses and releases alternate; pressed tells whether a press without its
\* release precedes them
RECURSIVE Alternates(_, _)
Alternates(buttons, pressed) ==
    IF buttons = <<>> THEN TRUE
    ELSE /\ Head(buttons).pressed = ~pressed
         /\ Alternates(Tail(buttons), ~pressed)

\* C34: in the batches a device has sent so far the pointer-button events
\* alternate between pressed and released, starting with pressed.
C34_PressReleaseAlternation ==
    Alternates(SelectSeq(Flatten(chan), IsButton), FALSE)

\* the same for the sessions in which the fingers do not overlap
AlternationSequential ==
    (\E a \in SlotIdx, b \in SlotIdx, x \in RawValues :
         Script = SequentialScript(a, b, x))
        => C34_PressReleaseAlternation

(***************************************************************************)
(* SpecSlots: a finger goes down in slot s; then the device selects a slot *)
(* outside the table and goes on to send a tracking id and a position.     *)
(***************************************************************************)
StrayScript(s, out, t, x) ==
    <<RecSlot(s), RecTid(0), RecX(x), RecY(x), RecSyn,
      RecSlot(out), RecTid(t), RecX(0), RecY(0), RecSyn>>

InitSlots ==
    \E c \in DispatchConfigs, s \in SlotIdx, out \in {-1, MAX_SLOTS},
       t \in {-1, MaxTid}, x \in RawValues :
        /\ InitWith(c)
        /\ input = [NoScript EXCEPT ![Dev].recs = StrayScript(s, out, t, x)]

SpecSlots == InitSlots /\ [][NextScript]_vars

\* the step reads the next record of the script of Dev
ReadsNext == HasNext(Dev) /\ Done' = Done + 1

IsSlotRec(r) == r.type = EV_ABS /\ r.code = ABS_MT_SLOT

\* C35: the slot selector of every device is in 0..9 in every state, so
\* that the slot it selects exists; a slot record with a value in 0..9
\* sets it, one with a negative value or one of at least 10 leaves it
\* unchanged, and no other record changes it.
C35_SlotSelectorBound ==
    /\ [](\A d \in Devices :
              /\ current_slot[d] >= 0 /\ current_slot[d] <= 9
              /\ current_slot[d] \in DOMAIN slots[d])
    /\ [][ReadsNext =>
              current_slot'[Dev] =
                  IF /\ IsSlotRec(NextRec(Dev))
                     /\ NextRec(Dev).value >= 0
                     /\ NextRec(Dev).value < 10
                  THEN NextRec(Dev).value
                  ELSE current_slot[Dev]]_vars

C35_Witness ==
    /\ Done >= 6
    /\ IsSlotRec(Script[6]) /\ Script[6].value = MAX_SLOTS
    /\ current_slot[Dev] = MAX_SLOTS - 1

\* the records read so far end with a slot record outside 0..9 followed by
\* records that are not slot records
AfterStraySlot ==
    \E i \in 1 .. Done :
        /\ IsSlotRec(Script[i])
        /\ Script[i].value < 0 \/ Script[i].value >= MAX_SLOTS
        /\ \A j \in (i + 1) .. Done : ~IsSlotRec(Script[j])

\* C36: a tracking id or a position read after a slot record outside 0..9
\* changes no slot of the table, and the boundary that follows emits no
\* touch event.
C36_OutOfRangeDropped ==
    [][(AfterStraySlot /\ ReadsNext) =>
           /\ NextRec(Dev).type = EV_ABS => slots' = slots
           /\ NextRec(Dev).type = EV_SYN => last'.mt = <<>>]_vars

(***************************************************************************)
(* SpecContacts: contacts whose first frame writes X alone, as the only    *)
(* contact of a slot or after an earlier contact of the same slot.         *)
(***************************************************************************)
\* finger down in slot s with an X and no Y, boundary
HalfContactScript(s, x) == <<RecSlot(s), RecTid(0), RecX(x), RecSyn>>

\* a whole contact at (x, y), then a second contact whose first frame writes
SecondContactScript(s, x, y, writes) ==
    LifecycleScript(s, 0, x, y) \o <<RecTid(1)>> \o writes \o <<RecSyn>>

\* what the first frame of the second contact writes: X alone, X and Y
ContactWrites ==
    {<<RecX(v)>> : v \in RawValues}
    \cup {<<RecX(v), RecY(w)>> : v \in RawValues, w \in RawValues}

InitContacts ==
    \E c \in DispatchConfigs, s \in SlotIdx, x \in RawValues :
        /\ InitWith(c)
        /\ \/ input = [NoScript EXCEPT ![Dev].recs = HalfContactScript(s, x)]
           \/ \E y \in RawValues, w \in ContactWrites :
                 input = [NoScript EXCEPT
                              ![Dev].recs = SecondContactScript(s, x, y, w)]

SpecContacts == InitContacts /\ [][NextScript]_vars

IsTidRec(r) == r.type = EV_ABS /\ r.code = ABS_MT_TRACKING_ID
IsXRec(r) == r.type = EV_ABS /\ r.code = ABS_MT_POSITION_X
IsYRec(r) == r.type = EV_ABS /\ r.code = ABS_MT_POSITION_Y

\* the index of the last of the first n records of the session that
\* satisfies P, 0 when there is none
LastRec(P(_), n) ==
    LET found == {i \in 1 .. n : P(Script[i])}
    IN  IF found = {} THEN 0 ELSE CHOOSE i \in found : \A j \in found : j <= i

\* the tracking id of the slot before the i-th record is read
TidBefore(i) ==
    IF LastRec(IsTidRec, i - 1) = 0 THEN -1
    ELSE Script[LastRec(IsTidRec, i - 1)].value

\* the index of the record with which the slot of the session last became
\* occupied, among the records read so far
OccupiedAt ==
    LET found == {i \in 1 .. Done :
                     /\ IsTidRec(Script[i])
                     /\ Script[i].value >= 0
                     /\ TidBefore(i) < 0}
    IN  IF found = {} THEN 0 ELSE CHOOSE i \in found : \A j \in found : j <= i

\* the touch events of phase Start in the batch of the last boundary
StartsOf(it) ==
    SelectSeq(it.mt, LAMBDA e : IsTouch(e) /\ e.phase = "Start")

\* C37: the position of every Start event of a slot is the mapping of an X
\* and of a Y that were both written to the slot after it last became
\* occupied: neither is the initial 0 nor a value of an earlier contact.
C37_NoStaleCoordinates ==
    (IsSynReport(last) /\ StartsOf(last) # <<>>) =>
        /\ LastRec(IsXRec, Done) > OccupiedAt
        /\ LastRec(IsYRec, Done) > OccupiedAt
        /\ \A i \in 1 .. Len(StartsOf(last)) :
              StartsOf(last)[i].pos =
                  normalize(Dev, Script[LastRec(IsXRec, Done)].value,
                                 Script[LastRec(IsYRec, Done)].value)

\* what the code does: the X of a Start was written in its frame, the Y is
\* the one last written to the slot, whenever that was, and 0 when none was
StartCarriesLastWritten ==
    (IsSynReport(last) /\ StartsOf(last) # <<>>) =>
        /\ LastRec(IsXRec, Done) > OccupiedAt
        /\ \A i \in 1 .. Len(StartsOf(last)) :
              StartsOf(last)[i].pos =
                  normalize(Dev, Script[LastRec(IsXRec, Done)].value,
                                 IF LastRec(IsYRec, Done) = 0 THEN 0
                                 ELSE Script[LastRec(IsYRec, Done)].value)

(***************************************************************************)
(* SpecFingerIds: every device is a multitouch panel with two fingers, in  *)
(* slots 0 and 9 or in slots 1 and 0, or a single-touch panel that is      *)
(* tapped; the channel keeps every batch.                                  *)
(***************************************************************************)
\* a tap on a single-touch device: position, button down, boundary, button
\* up, boundary
TapScript ==
    <<RecAbsX(MaxRaw), RecAbsY(MaxRaw), RecBtnTouch(1), RecSyn,
      RecBtnTouch(0), RecSyn>>

FingerIdScripts == TwoFingerScripts \cup {TapScript}

InitFingerIds ==
    \E c \in DispatchConfigs, scripts \in [Devices -> FingerIdScripts] :
        /\ InitWith(c)
        /\ input = [d \in Devices |-> [recs |-> scripts[d], done |-> 0]]

SpecFingerIds == InitFingerIds /\ [][NextIsolation]_vars

\* the slots of device d whose phase derivation yields an event at the
\* boundary that is about to be processed
EmittingSlots(d) ==
    {s \in SlotIdx :
        LET slot == slots[d][s]
        IN  \/ slot.prev_tracking_id >= 0 /\ slot.tracking_id < 0
            \/ slot.tracking_id >= 0 /\ slot.has_pos}

TouchIdsOf(events) ==
    {events[i].id : i \in {j \in 1 .. Len(events) : IsTouch(events[j])}}

\* C38: two touch events carry the same finger id only if they come from
\* the same device and the same slot, the single-touch fallback counting as
\* slot 0: a boundary of device d gives the event of slot s the id
\* d * 1000 + s with s < 10, one event per emitting slot, and the fallback
\* event the id d * 1000; no id on the channel is shared by two devices.
C38_FingerIdUniqueness ==
    /\ [][Boundary =>
             LET d == last'.dev
             IN  /\ TouchIdsOf(last'.mt) =
                        {d * 1000 + s : s \in EmittingSlots(d)}
                 /\ Len(Touches(last'.mt)) = Cardinality(EmittingSlots(d))
                 /\ TouchIdsOf(last'.st) \subseteq {d * 1000}
                 /\ \A i \in 1 .. Len(Batch(last')) :
                        IsTouch(Batch(last')[i])
                            => Batch(last')[i].device_id = d]_vars
    /\ [](LET ts == Touches(Flatten(chan))
          IN  \A i \in 1 .. Len(ts), j \in 1 .. Len(ts) :
                  ts[i].id = ts[j].id =>
                      /\ ts[i].device_id = ts[j].device_id
                      /\ ts[i].id - ts[i].device_id * 1000 \in 0 .. 9)

\* the channel holds a touch of slot 9 of device 0, a touch of the fallback
\* of the last device, and a Start and an End with one id
C38_Witness ==
    LET ts == Touches(Flatten(chan))
    IN  /\ \E i \in 1 .. Len(ts) : ts[i].id = 9 /\ ts[i].device_id = 0
        /\ \E i \in 1 .. Len(ts) :
              /\ ts[i].id = Dev * 1000 /\ ts[i].device_id = Dev
              /\ input[Dev].recs = TapScript
        /\ \E i \in 1 .. Len(ts), j \in 1 .. Len(ts) :
              /\ ts[i].id = ts[j].id
              /\ ts[i].phase = "Start" /\ ts[j].phase = "End"

(***************************************************************************)
(* SpecReplacement: a finger down in slot s with tracking id 0, boundary,  *)
(* then the tracking id is replaced by another one in a frame that writes  *)
(* nothing else, X alone or Y alone, boundary.                             *)
(***************************************************************************)
ReplacementScript(s, t, x, writes) ==
    <<RecSlot(s), RecTid(0), RecX(x), RecY(x), RecSyn, RecTid(t)>>
        \o writes \o <<RecSyn>>

InitReplacement ==
    \E c \in DispatchConfigs, s \in SlotIdx, t \in 1 .. MaxTid,
       x \in RawValues, w \in SecondFrameWrites :
        /\ InitWith(c)
        /\ input = [NoScript EXCEPT ![Dev].recs = ReplacementScript(s, t, x, w)]

SpecReplacement == InitReplacement /\ [][NextScript]_vars

\* C39: at the boundary of a frame in which the tracking id of an occupied
\* slot was replaced by another non-negative one, the slot emits neither
\* End nor Start, and it emits Move exactly when the frame wrote a position
\* field, X or Y.
C39_TrackingIdReplacement ==
    \A s \in SlotIdx, t \in 1 .. MaxTid, x \in RawValues,
       w \in SecondFrameWrites :
        (Script = ReplacementScript(s, t, x, w) /\ ScriptDone(Dev)) =>
            /\ ~Emitted(last.mt, Dev, s, "End")
            /\ ~Emitted(last.mt, Dev, s, "Start")
            /\ Emitted(last.mt, Dev, s, "Move") <=> w # <<>>

\* what the code does: the same, with the Move exactly when the frame
\* wrote X
ReplacementMovesOnX ==
    \A s \in SlotIdx, t \in 1 .. MaxTid, x \in RawValues,
       w \in SecondFrameWrites :
        (Script = ReplacementScript(s, t, x, w) /\ ScriptDone(Dev)) =>
            /\ slots[Dev][s].tracking_id = t
            /\ slots[Dev][s].prev_tracking_id = t
            /\ ~Emitted(last.mt, Dev, s, "End")
            /\ ~Emitted(last.mt, Dev, s, "Start")
            /\ Emitted(last.mt, Dev, s, "Move")
                   <=> \E v \in RawValues : w = <<RecX(v)>>

====
